---- MODULE Spec2Model ----
(***************************************************************************)
(* A model of the James CI core: the locked pipeline record                *)
(* (jamesci/pipeline.py), the pipeline id allocation                       *)
(* (PipelineConstructor._assign_id), the stage scheduler                   *)
(* (bin/schedule.py), the job runner (bin/run.py), the legacy job runner   *)
(* (bin/runner.py), the status aggregation (Pipeline.status) and the       *)
(* configuration chain (jamesci/job_base.py).                              *)
(*                                                                         *)
(* The subsystems share no state besides the file system, so each has its  *)
(* own specification (SpecLock, SpecAlloc, SpecSched, SpecRun, SpecLegacy, *)
(* SpecStatus, SpecConf) over its own group of variables; the other groups *)
(* stay at their initial value.                                            *)
(***************************************************************************)
EXTENDS Integers, Sequences, FiniteSets, TLC

VARIABLES
    \* ---- the pipeline record and its flock(2) lock (SpecLock)
    disk,       \* the record file: job -> status, as the last _save wrote it
    lock,       \* per Pipeline object (open file description): "none", "SH", "EX"
    pc,         \* per Pipeline object: position of its owner in the Pipeline methods
    mem,        \* per Pipeline object: the imported jobs' statuses (self._jobs)
    writeable,  \* per Pipeline object: jobs are WriteableJob (TRUE) or Job (FALSE)
    entryDisk,  \* history: the record as it was when __enter__ returned
    committed,  \* history: the status the object's owner last committed, 0 if none
    enters,     \* per process: the number of contexts it has entered so far
    \* ---- the project directory (SpecAlloc)
    owner,      \* per id: the allocator that made the directory <id>, 0 if none
    files,      \* per id: <id>/pipeline.yml is "none", "empty" or "full"
    apc,        \* per allocator: its position in create / _assign_id
    attempt,    \* per allocator: the loop counter i of _assign_id (0 once it returned)
    cand,       \* per allocator: pipeline_id, the candidate of this round (0 outside it)
    aid,        \* per allocator: self._id, 0 for None
    began,      \* history: per allocator without an id, the ids that existed when it began
    \* ---- one run of the scheduler on one pipeline (SpecSched)
    stages,     \* the pipeline's declared stages, <<>> if it declares none
    jstage,     \* per job: its stage, None if unset
    jstatus,    \* per job: its status in the stored record
    spc,        \* the scheduler's position
    sidx,       \* the index of the stage the outer loop is at
    todo,       \* the jobs of this stage the inner loop has yet to run
    cur,        \* the job james-run was called for, 0 if none
    ndisp,      \* history: per job, how often james-run was called for it
    \* ---- one run of the runner bin/run.py on one job (SpecRun)
    jsteps,     \* job.steps: the names of the steps defined for the job
    rconf,      \* the runner's configuration and the job's resolved git settings
    rec,        \* the job in the stored record: status, start and end (0: unset)
    now,        \* the clock, int(time.time())
    rpc,        \* the runner's position in __main__ / finish_job / the handler
    rsh,        \* the state of the running Shell.run call, "idle" if none
    rstep,      \* the step whose commands Shell.run executes, "" if none
    ridx,       \* the number of the command Shell.run is at
    rlen,       \* the number of commands Shell.run was called with
    rloop,      \* the index of the for loops over step names
    rfin,       \* finish_job's arguments: the status and who called it
    rexit,      \* the exit code of the process, -1 while it runs
    trace,      \* history: the commands executed so far, in order, with results
    rfault,     \* history: the uncaught exception that ended __main__ or the hook
    obs,        \* history: what a load made during the running command returned
    rnote,      \* history: how often the notify scripts were executed
    \* ---- one run of the legacy runner bin/runner.py on one job (SpecLegacy)
    lkeys,      \* the keys k with `k in job` (job level or pipeline level)
    lconf,      \* the runner's configuration and the job's git depth
    lrec,       \* the job's meta in the stored record: status, start, end
    lpc,        \* the legacy runner's position in main / finish_job / the hook
    lloop,      \* the index of the for loops over step names
    lfin,       \* finish_job's arguments: status and exit
    lexit,      \* the exit code of the process, -1 while it runs
    ltrace,     \* history: the steps executed so far, in order, with results
    lfault,     \* history: the kind of exception that reached sys.excepthook
    \* ---- status queries on one stored pipeline (SpecStatus)
    qstages,    \* the pipeline's declared stages, <<>> if it declares none
    qjobs,      \* the jobs dictionary: name -> the job's stage and status
    qres,       \* the last query: which one, for which stage, what it gave
    \* ---- the configuration of one job and its pipeline (SpecConf)
    cjob,       \* the job's stored env and git (JobBase._env, JobBase._git)
    cpipe,      \* the pipeline's stored env and git
    cres,       \* what job.env and job.git gave when they were last read
    \* ---- one Steps object, dumped and imported again (SpecSteps)
    stData,     \* the dictionary Steps(data) is constructed from
    stObj,      \* the Steps object: step -> tuple of commands
    stDump,     \* what dump() returned
    stAgain,    \* the Steps object constructed from what dump() returned
    stpc,       \* how far the round trip has come
    \* ---- one record file, its writer and its loaders (SpecRecord)
    fstate,     \* the record's place: "nodir", "nofile" (directory only), "file"
    fdata,      \* the file's contents: per chunk, the save that wrote it
    fsize,      \* history: per save, the number of chunks of its record, 0 if none
    fver,       \* the number of the writer's last save, 0 before the first
    flk,        \* per process: the flock it holds, "none", "SH" or "EX"
    fpc,        \* per process: its position
    fgot        \* per loader: what its last completed load returned

lockVars == <<disk, lock, pc, mem, writeable, entryDisk, committed, enters>>
allocVars == <<owner, files, apc, attempt, cand, aid, began>>

schedVars == <<stages, jstage, jstatus, spc, sidx, todo, cur, ndisp>>

runVars == <<jsteps, rconf, rec, now, rpc, rsh, rstep, ridx, rlen, rloop, rfin,
             rexit, trace, rfault, obs, rnote>>

legVars == <<lkeys, lconf, lrec, lpc, lloop, lfin, lexit, ltrace, lfault>>

statVars == <<qstages, qjobs, qres>>

confVars == <<cjob, cpipe, cres>>

stepVars == <<stData, stObj, stDump, stAgain, stpc>>

recVars == <<fstate, fdata, fsize, fver, flk, fpc, fgot>>

vars == <<lockVars, allocVars, schedVars, runVars, legVars, statVars,
          confVars, stepVars, recVars>>

\* What the actions of one subsystem leave alone.
notLock == <<allocVars, schedVars, runVars, legVars, statVars,
    confVars, stepVars, recVars>>
notAlloc == <<lockVars, schedVars, runVars, legVars, statVars,
    confVars, stepVars, recVars>>
notSched == <<lockVars, allocVars, runVars, legVars, statVars,
    confVars, stepVars, recVars>>
notRun == <<lockVars, allocVars, schedVars, legVars, statVars,
    confVars, stepVars, recVars>>
notLeg == <<lockVars, allocVars, schedVars, runVars, statVars,
    confVars, stepVars, recVars>>
notStat == <<lockVars, allocVars, schedVars, runVars, legVars,
    confVars, stepVars, recVars>>
notConf == <<lockVars, allocVars, schedVars, runVars, legVars, statVars,
    stepVars, recVars>>
notSteps == <<lockVars, allocVars, schedVars, runVars, legVars, statVars,
    confVars, recVars>>
notRec == <<lockVars, allocVars, schedVars, runVars, legVars, statVars,
    confVars, stepVars>>

(***************************************************************************)
(* Status (jamesci/status.py): an IntEnum numbered by enum.auto().          *)
(***************************************************************************)
created == 1
pending == 2
running == 3
canceled == 4
errored == 5
failed == 6
success == 7

Status == created..success

(***************************************************************************)
(* Bounds of the lock model.                                               *)
(***************************************************************************)
MaxEnters == 2

\* Two processes, each with its own Pipeline object on the same record.
Procs == {1, 2}

\* Each process changes the status of its own job: process p changes job p.
Jobs == Procs
JobOf(p) == p

\* The statuses a block writes into its job.
BlockStatus == {running, success}

(***************************************************************************)
(* flock(2), as portalocker.lock calls it without LOCK_NB.  A lock belongs *)
(* to an open file description, here the Pipeline object's self._fh.       *)
(* Shared locks coexist; an exclusive lock excludes every other lock.      *)
(* A call that asks for the other kind than the one held converts the      *)
(* lock, and flock(2) does not make a conversion atomic: the held lock is  *)
(* removed first and the new one is then requested like any other, so a    *)
(* pending request of another process may be granted in between.  The      *)
(* atomic outcome is the run in which nothing happens in between.          *)
(***************************************************************************)
Compatible(p, mode) ==
    IF mode = "SH"
    THEN \A q \in Procs \ {p} : lock[q] # "EX"
    ELSE \A q \in Procs \ {p} : lock[q] = "none"

\* One step of the call flock(fh, mode) of p at position `at`; the call
\* returns at position `next`.
Flock(p, mode, at, next) ==
    /\ pc[p] = at
    /\ \/ /\ lock[p] \notin {"none", mode}
          /\ lock' = [lock EXCEPT ![p] = "none"]
          /\ pc' = pc
       \/ /\ \/ lock[p] = mode
             \/ lock[p] = "none" /\ Compatible(p, mode)
          /\ lock' = [lock EXCEPT ![p] = mode]
          /\ pc' = [pc EXCEPT ![p] = next]

Unlock(p) == lock' = [lock EXCEPT ![p] = "none"]

\* Pipeline._import of the parsed record: the jobs are rebuilt from the
\* file's contents, as Job or as WriteableJob.
Import(p, w) ==
    /\ mem' = [mem EXCEPT ![p] = disk]
    /\ writeable' = [writeable EXCEPT ![p] = w]

(***************************************************************************)
(* Pipeline.reload -> _load(): lock shared, import, unlock.                *)
(***************************************************************************)
Reload(p) ==
    /\ pc[p] = "idle"
    /\ pc' = [pc EXCEPT ![p] = "load_lock"]
    /\ UNCHANGED <<notLock, disk, lock, mem, writeable, entryDisk, committed, enters>>

LoadLock(p) ==
    /\ Flock(p, "SH", "load_lock", "load_read")
    /\ UNCHANGED <<notLock, disk, mem, writeable, entryDisk, committed, enters>>

LoadRead(p) ==
    /\ pc[p] = "load_read"
    /\ Import(p, FALSE)
    /\ pc' = [pc EXCEPT ![p] = "load_unlock"]
    /\ UNCHANGED <<notLock, disk, lock, entryDisk, committed, enters>>

LoadUnlock(p) ==
    /\ pc[p] = "load_unlock"
    /\ Unlock(p)
    /\ pc' = [pc EXCEPT ![p] = "idle"]
    /\ UNCHANGED <<notLock, disk, mem, writeable, entryDisk, committed, enters>>

(***************************************************************************)
(* Pipeline.__enter__: lock exclusively, then _load(unlock=False,          *)
(* writeable=True), which itself calls lock(LOCK_SH) on the same handle.   *)
(* The context is entered from a write-protected object or, as the         *)
(* runner's exception handler does, from one whose context was left by an  *)
(* exception.                                                              *)
(***************************************************************************)
BeginEnter(p) ==
    /\ pc[p] \in {"idle", "raised"}
    /\ enters[p] < MaxEnters
    /\ enters' = [enters EXCEPT ![p] = @ + 1]
    /\ pc' = [pc EXCEPT ![p] = "enter_lock"]
    /\ UNCHANGED <<notLock, disk, lock, mem, writeable, entryDisk, committed>>

EnterLock(p) ==
    /\ Flock(p, "EX", "enter_lock", "enter_load_lock")
    /\ UNCHANGED <<notLock, disk, mem, writeable, entryDisk, committed, enters>>

EnterLoadLock(p) ==
    /\ Flock(p, "SH", "enter_load_lock", "enter_read")
    /\ UNCHANGED <<notLock, disk, mem, writeable, entryDisk, committed, enters>>

EnterRead(p) ==
    /\ pc[p] = "enter_read"
    /\ Import(p, TRUE)
    /\ entryDisk' = [entryDisk EXCEPT ![p] = disk]
    /\ pc' = [pc EXCEPT ![p] = "in_ctx"]
    /\ UNCHANGED <<notLock, disk, lock, committed, enters>>

(***************************************************************************)
(* The block of the with statement: it may change the status of the        *)
(* process's job in memory, and it ends normally or by raising.            *)
(***************************************************************************)
Mutate(p) ==
    /\ pc[p] = "in_ctx"
    /\ writeable[p]
    /\ \E s \in BlockStatus \ {mem[p][JobOf(p)]} :
          mem' = [mem EXCEPT ![p][JobOf(p)] = s]
    /\ pc' = [pc EXCEPT ![p] = "mutated"]
    /\ UNCHANGED <<notLock, disk, lock, writeable, entryDisk, committed, enters>>

(***************************************************************************)
(* Pipeline.__exit__.  With an exception it returns at once: nothing is    *)
(* saved, and neither the import nor the unlock below is reached.          *)
(***************************************************************************)
\* Mutant of ExitRaised: the state in memory is written although the block
\* raised.
ExitRaisedSaving(p) ==
    /\ pc[p] \in {"in_ctx", "mutated"}
    /\ disk' = mem[p]
    /\ pc' = [pc EXCEPT ![p] = "raised"]
    /\ UNCHANGED <<notLock, lock, mem, writeable, entryDisk, committed, enters>>

ExitRaised(p) ==
    /\ pc[p] \in {"in_ctx", "mutated"}
    /\ pc' = [pc EXCEPT ![p] = "raised"]
    /\ UNCHANGED <<notLock, disk, lock, mem, writeable, entryDisk, committed, enters>>

\* Without an exception: _save(unlock=False), _load(unlock=False), unlock.
ExitNormal(p) ==
    /\ pc[p] \in {"in_ctx", "mutated"}
    /\ pc' = [pc EXCEPT ![p] = "save_lock"]
    /\ UNCHANGED <<notLock, disk, lock, mem, writeable, entryDisk, committed, enters>>

SaveLock(p) ==
    /\ Flock(p, "EX", "save_lock", "save_write")
    /\ UNCHANGED <<notLock, disk, mem, writeable, entryDisk, committed, enters>>

\* seek(0), yaml.dump(self.dump()), truncate(): the file now holds the
\* object's state.
SaveWrite(p) ==
    /\ pc[p] = "save_write"
    /\ disk' = mem[p]
    /\ committed' = [committed EXCEPT ![p] = mem[p][JobOf(p)]]
    /\ pc' = [pc EXCEPT ![p] = "exit_load_lock"]
    /\ UNCHANGED <<notLock, lock, mem, writeable, entryDisk, enters>>

ExitLoadLock(p) ==
    /\ Flock(p, "SH", "exit_load_lock", "exit_read")
    /\ UNCHANGED <<notLock, disk, mem, writeable, entryDisk, committed, enters>>

ExitRead(p) ==
    /\ pc[p] = "exit_read"
    /\ Import(p, FALSE)
    /\ pc' = [pc EXCEPT ![p] = "exit_unlock"]
    /\ UNCHANGED <<notLock, disk, lock, entryDisk, committed, enters>>

ExitUnlock(p) ==
    /\ pc[p] = "exit_unlock"
    /\ Unlock(p)
    /\ pc' = [pc EXCEPT ![p] = "idle"]
    /\ UNCHANGED <<notLock, disk, mem, writeable, entryDisk, committed, enters>>

(***************************************************************************)
(* Pipeline.__del__ closes the file handle, which drops whatever lock the  *)
(* open file description holds; the owner then opens the record again      *)
(* (Pipeline.__init__: open, _load).                                       *)
(***************************************************************************)
Close(p) ==
    /\ pc[p] = "raised"
    /\ Unlock(p)
    /\ writeable' = [writeable EXCEPT ![p] = FALSE]
    /\ pc' = [pc EXCEPT ![p] = "load_lock"]
    /\ UNCHANGED <<notLock, disk, mem, entryDisk, committed, enters>>

LockInit ==
    /\ disk = [j \in Jobs |-> pending]
    /\ lock = [p \in Procs |-> "none"]
    /\ pc = [p \in Procs |-> "idle"]
    /\ mem = [p \in Procs |-> [j \in Jobs |-> pending]]
    /\ writeable = [p \in Procs |-> FALSE]
    /\ entryDisk = [p \in Procs |-> [j \in Jobs |-> pending]]
    /\ committed = [p \in Procs |-> 0]
    /\ enters = [p \in Procs |-> 0]


NextLock ==
    \E p \in Procs :
        \/ Reload(p) \/ LoadLock(p) \/ LoadRead(p) \/ LoadUnlock(p)
        \/ BeginEnter(p) \/ EnterLock(p) \/ EnterLoadLock(p) \/ EnterRead(p)
        \/ Mutate(p) \/ ExitRaised(p) \/ ExitNormal(p)
        \/ SaveLock(p) \/ SaveWrite(p)
        \/ ExitLoadLock(p) \/ ExitRead(p) \/ ExitUnlock(p)
        \/ Close(p)

\* The owner of p is inside the exclusive-access context: __enter__ has
\* returned and __exit__ has not.
InContext(p) ==
    pc[p] \in {"in_ctx", "mutated", "save_lock", "save_write",
               "exit_load_lock", "exit_read", "exit_unlock"}

(***************************************************************************)
(* Claims about the exclusive-access context, checked under SpecLock.      *)
(***************************************************************************)

\* C2: no lost update.  Each process changes only its own job, so once
\* every process has committed a status and has left its context, the
\* record holds every process's last committed status.
C2_NoLostUpdate ==
    (\A p \in Procs : pc[p] = "idle" /\ committed[p] # 0)
        => \A p \in Procs : disk[JobOf(p)] = committed[p]

\* C3: mutual exclusion of the context.  No two processes are inside
\* their contexts at once, and no process completes the read of a
\* shared-lock load while another process is inside its context.
C3_MutualExclusion ==
    /\ [](\A p, q \in Procs : p # q => ~(InContext(p) /\ InContext(q)))
    /\ [][\A q \in Procs :
            (pc[q] = "load_read" /\ pc'[q] = "load_unlock")
                => \A p \in Procs \ {q} : ~InContext(p)]_vars

\* C4: commit on normal exit.  Once process p has left its context
\* normally, the record holds the status p committed for its job (only p
\* changes that job), so that any load starting then returns it.
C4_CommitPersists ==
    \A p \in Procs :
        (pc[p] = "idle" /\ committed[p] # 0) => disk[JobOf(p)] = committed[p]

\* C5: no write on error exit.  When the block has raised and __exit__
\* has returned, the record is what it was when __enter__ returned.
C5_NoWriteOnError ==
    \A p \in Procs : pc[p] = "raised" => disk = entryDisk[p]

\* C5 witness: a block changed its job's status in memory and raised.
C5_Witness ==
    \E p \in Procs :
        /\ pc[p] = "raised"
        /\ mem[p][JobOf(p)] # entryDisk[p][JobOf(p)]

\* C6: lock release on error exit.  When the block has raised and
\* __exit__ has returned, the object holds no lock on the record.
C6_LockReleasedOnError ==
    \A p \in Procs : pc[p] = "raised" => lock[p] = "none"

\* C32: the mutable view is confined to the context.  Whenever the owner
\* of p is outside the context (before entering it, after leaving it
\* normally or after the block raised), the jobs of p are write-protected;
\* and after the block raised, the state in memory is the state loaded
\* from the record when the context was entered.
C32_MutableViewConfined ==
    \A p \in Procs :
        /\ pc[p] \in {"idle", "raised"} => ~writeable[p]
        /\ pc[p] = "raised" => mem[p] = entryDisk[p]

(***************************************************************************)
(* Progress.  A process that is inside a call of the Pipeline goes on: a   *)
(* call that has the lock it asked for takes its next step, the block of   *)
(* a with statement ends (normally or by raising), and a lock that is      *)
(* requested again and again while it can be granted is granted (fair lock *)
(* granting).  Whether an idle process calls the Pipeline again, and when  *)
(* the owner of an object closes it, is up to the owner.                   *)
(***************************************************************************)
\* The calls of flock of p.
LockRequest(p) ==
    \/ LoadLock(p) \/ EnterLock(p) \/ EnterLoadLock(p)
    \/ SaveLock(p) \/ ExitLoadLock(p)

\* The steps of p inside a call that do not wait for anything.
Continue(p) ==
    \/ LoadRead(p) \/ LoadUnlock(p) \/ EnterRead(p)
    \/ ExitRaised(p) \/ ExitNormal(p)
    \/ SaveWrite(p) \/ ExitRead(p) \/ ExitUnlock(p)

LockFairness ==
    \A p \in Procs : WF_vars(Continue(p)) /\ SF_vars(LockRequest(p))

\* The owner of p is inside a call of the Pipeline: a load, or the context
\* from __enter__ to the return of __exit__.
InCall(p) == pc[p] \notin {"idle", "raised"}

ProgressUnlessLockKept ==
    (\A q \in Procs : []<>(pc[q] # "raised" \/ lock[q] = "none"))
        => \A p \in Procs : InCall(p) ~> ~InCall(p)

(***************************************************************************)
(* Pipeline id allocation: PipelineConstructor._assign_id and create.      *)
(* The loops of bin/dispatcher.py and src/utils/dispatcher.py take the     *)
(* same steps (list, max + 1, makedirs, up to three times).                *)
(***************************************************************************)

\* Bound: the number of dispatcher processes allocating in one project.
NumAllocs == 4

\* range(3): the number of tries of _assign_id.
Retries == 3

Allocs == 1..NumAllocs

\* Every successful allocation creates one directory, so no id exceeds the
\* number of allocators.
Ids == 1..NumAllocs

\* os.listdir(project_path): the ids that exist as directories.
ListDir == {i \in Ids : owner[i] # 0}

SetMax(S) == CHOOSE m \in S : \A x \in S : x <= m

\* Mutant of NewId: the maximum plus two, where that id is in range.
NewIdSkipsOne ==
    IF ListDir = {} THEN 1
    ELSE IF SetMax(ListDir) + 2 \in Ids THEN SetMax(ListDir) + 2
    ELSE SetMax(ListDir) + 1

\* new_id(): the maximum id found in the project directory plus one, or 1
\* if the directory is missing or empty.
NewId == IF ListDir = {} THEN 1 ELSE SetMax(ListDir) + 1

\* _assign_id up to the loop: the pipeline must not have an id yet.
AssignStart(a) ==
    /\ apc[a] = "start"
    /\ aid[a] = 0
    /\ apc' = [apc EXCEPT ![a] = "new_id"]
    /\ attempt' = [attempt EXCEPT ![a] = 0]
    /\ began' = [began EXCEPT ![a] = ListDir]
    /\ UNCHANGED <<owner, files, cand, aid, notAlloc>>

\* pipeline_id = new_id(): the directory is listed and the candidate chosen.
ListIds(a) ==
    /\ apc[a] = "new_id"
    /\ cand' = [cand EXCEPT ![a] = NewId]
    /\ apc' = [apc EXCEPT ![a] = "makedirs"]
    /\ UNCHANGED <<owner, files, attempt, aid, began, notAlloc>>

\* Mutant of MakeDirsOk: the directory is made whether or not it exists
\* (makedirs with exist_ok=True).
MakeDirsExistOk(a) ==
    /\ apc[a] = "makedirs"
    /\ owner' = [owner EXCEPT ![cand[a]] = IF @ = 0 THEN a ELSE @]
    /\ aid' = [aid EXCEPT ![a] = cand[a]]
    /\ apc' = [apc EXCEPT ![a] = "assigned"]
    /\ cand' = [cand EXCEPT ![a] = 0]
    /\ attempt' = [attempt EXCEPT ![a] = 0]
    /\ UNCHANGED <<files, began, notAlloc>>

\* Mutant of MakeDirsOk: the return after a successful makedirs is missing,
\* so the loop goes on and ends in the OSError.
MakeDirsNoReturn(a) ==
    /\ apc[a] = "makedirs"
    /\ owner[cand[a]] = 0
    /\ owner' = [owner EXCEPT ![cand[a]] = a]
    /\ aid' = [aid EXCEPT ![a] = cand[a]]
    /\ attempt' = [attempt EXCEPT ![a] = @ + 1]
    /\ apc' = [apc EXCEPT ![a] =
                 IF attempt[a] + 1 < Retries THEN "new_id" ELSE "failed"]
    /\ cand' = [cand EXCEPT ![a] = 0]
    /\ UNCHANGED <<files, began, notAlloc>>

\* os.makedirs(pipeline_wd) succeeds: the directory did not exist and is
\* made in one step; the id and the working directory are stored and
\* _assign_id returns.
MakeDirsOk(a) ==
    /\ apc[a] = "makedirs"
    /\ owner[cand[a]] = 0
    /\ owner' = [owner EXCEPT ![cand[a]] = a]
    /\ aid' = [aid EXCEPT ![a] = cand[a]]
    /\ apc' = [apc EXCEPT ![a] = "assigned"]
    /\ cand' = [cand EXCEPT ![a] = 0]
    /\ attempt' = [attempt EXCEPT ![a] = 0]
    /\ began' = [began EXCEPT ![a] = {}]
    /\ UNCHANGED <<files, notAlloc>>

\* Mutant of MakeDirsExists: the loop never gives up.
MakeDirsRetryForever(a) ==
    /\ apc[a] = "makedirs"
    /\ owner[cand[a]] # 0
    /\ attempt' = [attempt EXCEPT ![a] = @ + 1]
    /\ apc' = [apc EXCEPT ![a] = "new_id"]
    /\ cand' = [cand EXCEPT ![a] = 0]
    /\ UNCHANGED <<owner, files, aid, began, notAlloc>>

\* Mutant of MakeDirsExists: the loop gives up one round early.
MakeDirsExistsGivesUpEarly(a) ==
    /\ apc[a] = "makedirs"
    /\ owner[cand[a]] # 0
    /\ attempt' = [attempt EXCEPT ![a] = @ + 1]
    /\ apc' = [apc EXCEPT ![a] =
                 IF attempt[a] + 2 < Retries THEN "new_id" ELSE "failed"]
    /\ cand' = [cand EXCEPT ![a] = 0]
    /\ UNCHANGED <<owner, files, aid, began, notAlloc>>

\* os.makedirs(pipeline_wd) raises FileExistsError, which is suppressed:
\* the next round of the loop starts, or, after the third round, OSError
\* ('other processes block ID assignment') is raised.
MakeDirsExists(a) ==
    /\ apc[a] = "makedirs"
    /\ owner[cand[a]] # 0
    /\ attempt' = [attempt EXCEPT ![a] = @ + 1]
    /\ apc' = [apc EXCEPT ![a] =
                 IF attempt[a] + 1 < Retries THEN "new_id" ELSE "failed"]
    /\ cand' = [cand EXCEPT ![a] = 0]
    /\ UNCHANGED <<owner, files, aid, began, notAlloc>>

\* create: self._fh = self._config_file('w') creates the empty record file
\* in the pipeline's own working directory.
CreateOpen(a) ==
    /\ apc[a] = "assigned"
    /\ files' = [files EXCEPT ![aid[a]] = "empty"]
    /\ apc' = [apc EXCEPT ![a] = "save"]
    /\ UNCHANGED <<owner, attempt, cand, aid, began, notAlloc>>

\* create: self._save() writes the record.
CreateSave(a) ==
    /\ apc[a] = "save"
    /\ files' = [files EXCEPT ![aid[a]] = "full"]
    /\ apc' = [apc EXCEPT ![a] = "done"]
    /\ UNCHANGED <<owner, attempt, cand, aid, began, notAlloc>>


AllocInit ==
    /\ owner = [i \in Ids |-> 0]
    /\ files = [i \in Ids |-> "none"]
    /\ apc = [a \in Allocs |-> "start"]
    /\ attempt = [a \in Allocs |-> 0]
    /\ cand = [a \in Allocs |-> 0]
    /\ aid = [a \in Allocs |-> 0]
    /\ began = [a \in Allocs |-> {}]

NextAlloc ==
    \E a \in Allocs :
        \/ AssignStart(a) \/ ListIds(a)
        \/ MakeDirsOk(a) \/ MakeDirsExists(a)
        \/ CreateOpen(a) \/ CreateSave(a)

\* The allocators whose _assign_id returned, and those whose it raised.
Succeeded == {a \in Allocs : aid[a] # 0}
AllocFinished == \A a \in Allocs : apc[a] \in {"done", "failed"}

\* C7: unique pipeline ids.  No two allocators hold the same id.
C7_UniqueIds ==
    \A a, b \in Allocs : (a # b /\ aid[a] # 0 /\ aid[b] # 0) => aid[a] # aid[b]

\* C7 witness: an allocator that lost a race holds an id, as does another.
C7_Witness ==
    \E a, b \in Allocs :
        /\ a # b /\ aid[a] # 0 /\ aid[b] # 0
        /\ aid[b] > 1 /\ apc[a] = "done" /\ apc[b] = "done"

\* C8 as stated: once all N allocations have ended, the assigned ids are
\* exactly 1..N.
C8_AllIdsAssigned ==
    AllocFinished => {aid[a] : a \in Allocs} = 1..NumAllocs

\* C8 as amended: once all N allocations have ended, the ids of the k
\* allocations that succeeded are exactly 1..k, each held by one allocator,
\* and they are the directories that exist.
C8_SucceededIdsContiguous ==
    AllocFinished =>
        /\ {aid[a] : a \in Succeeded} = 1..Cardinality(Succeeded)
        /\ ListDir = 1..Cardinality(Succeeded)

\* C8 witness: all allocations have ended, one of them in the error.
C8_Witness ==
    /\ AllocFinished
    /\ \E a \in Allocs : apc[a] = "failed"
    /\ Cardinality(Succeeded) = NumAllocs - 1

\* C9: bounded retry.  An allocation makes at most Retries directory
\* creation attempts: it is in the loop only before the Retries-th failed
\* attempt and it fails exactly when Retries attempts found the directory
\* existing.  It stops at the first attempt that creates a directory, so
\* it owns that directory and no other, and every candidate is 1 or the
\* successor of an existing id.
C9_BoundedRetry ==
    \A a \in Allocs :
        /\ attempt[a] <= Retries
        /\ apc[a] = "failed" <=> attempt[a] = Retries
        /\ apc[a] \in {"new_id", "makedirs"} => attempt[a] < Retries /\ aid[a] = 0
        /\ \A i \in Ids : owner[i] = a => aid[a] = i
        /\ apc[a] = "makedirs" => (cand[a] = 1 \/ cand[a] - 1 \in ListDir)

\* C9 witness: an allocation failed after exactly Retries attempts, each
\* lost to another allocator's directory.
C9_Witness ==
    \E a \in Allocs :
        /\ apc[a] = "failed"
        /\ attempt[a] = Retries
        /\ Cardinality(ListDir) = Retries

\* C10: a failed allocation leaves nothing behind.  An allocator whose
\* _assign_id raised has no id, owns no directory and created no file.
C10_FailedLeavesNothing ==
    \A a \in Allocs :
        apc[a] = "failed" =>
            /\ aid[a] = 0
            /\ \A i \in Ids : owner[i] # a
            /\ \A i \in Ids : files[i] # "none" => owner[i] \in Succeeded

\* C10 witness: an allocation failed while the others created directories
\* and record files.
C10_Witness ==
    \E a \in Allocs :
        /\ apc[a] = "failed"
        /\ \E i \in Ids : files[i] = "full"

\* C39: contiguous, monotonic ids.  Starting from an empty project
\* directory, the ids that exist as directories are 1..k for some k >= 0;
\* directories are never removed; and the id an allocator is assigned is
\* greater than every id that existed when its allocation began (and than
\* every id that existed until the assignment).
C39_ContiguousMonotonic ==
    /\ [](ListDir = 1..Cardinality(ListDir))
    /\ [][/\ ListDir \subseteq ListDir'
          /\ \A a \in Allocs :
                (aid[a] = 0 /\ aid'[a] # 0) =>
                    /\ ListDir' = ListDir \cup {aid'[a]}
                    /\ \A i \in began[a] \cup ListDir : aid'[a] > i]_vars

\* C39 witness: directories exist, and an allocator that lost a race is
\* about to make the directory of a candidate that is more than one above
\* the ids that existed when it began.
C39_Witness ==
    \E a \in Allocs :
        /\ apc[a] = "makedirs" /\ attempt[a] > 0
        /\ began[a] # {}
        /\ cand[a] > SetMax(began[a]) + 1
        /\ owner[cand[a]] = 0

NumSJobs == 3

SJobs == 1..NumSJobs

\* A job's stage when it sets none.
None == "None"

\* The stage names jobs use, and the stage lists pipelines declare: none,
\* or distinct names, which may leave a name jobs use undeclared.
StageNames == {"build", "deploy", "other"}
StageLists ==
    {<<>>, <<"build">>, <<"build", "deploy">>, <<"deploy", "build">>}

\* pipeline.stages if pipeline.stages else [None]
StageLoop == IF stages = <<>> THEN <<None>> ELSE stages

\* (name for name, job in pipeline.jobs.items() if job.stage == stage)
JobsOfStage(st) == {j \in SJobs : jstage[j] = st}

SetMin(S) == CHOOSE m \in S : \A x \in S : m <= x

\* Mutant of Aggregate: the best status of the stage instead of the worst.
AggregateMax(S) == SetMax(S)

\* min(...) over the statuses of a stage's jobs.
Aggregate(S) == SetMin(S)

\* The outer loop takes the next stage and the inner loop's generator is
\* set up.
StageBegin ==
    /\ spc = "stage"
    /\ sidx <= Len(StageLoop)
    /\ todo' = JobsOfStage(StageLoop[sidx])
    /\ spc' = "jobs"
    /\ UNCHANGED <<stages, jstage, jstatus, sidx, cur, ndisp, notSched>>

\* The outer loop is exhausted: the scheduler ends.
StagesDone ==
    /\ spc = "stage"
    /\ sidx > Len(StageLoop)
    /\ spc' = "done"
    /\ UNCHANGED <<stages, jstage, jstatus, sidx, todo, cur, ndisp, notSched>>

\* subprocess.check_call(['james-run', project, id, job]) for the next job
\* of the stage, in the order of the jobs dictionary.
Dispatch ==
    /\ spc = "jobs"
    /\ todo # {}
    /\ LET j == SetMin(todo) IN
         /\ cur' = j
         /\ todo' = todo \ {j}
         /\ ndisp' = [ndisp EXCEPT ![j] = @ + 1]
    /\ spc' = "called"
    /\ UNCHANGED <<stages, jstage, jstatus, sidx, notSched>>

\* bin/run.py: with job as j: j.start_job().
RunnerStart ==
    /\ spc = "called"
    /\ jstatus' = [jstatus EXCEPT ![cur] = running]
    /\ spc' = "running"
    /\ UNCHANGED <<stages, jstage, sidx, todo, cur, ndisp, notSched>>

\* bin/run.py ends before the job is started (the pipeline or the job
\* cannot be loaded): the exit code is not 0 and check_call raises.
RunnerAbort ==
    /\ spc = "called"
    /\ spc' = "crashed"
    /\ UNCHANGED <<stages, jstage, jstatus, sidx, todo, cur, ndisp, notSched>>

\* bin/run.py: finish_job(job, status, config) with errored, failed or
\* success, then the runner exits with code 0.
RunnerFinish ==
    /\ spc = "running"
    /\ \E t \in {errored, failed, success} :
          jstatus' = [jstatus EXCEPT ![cur] = t]
    /\ cur' = 0
    /\ spc' = "jobs"
    /\ UNCHANGED <<stages, jstage, sidx, todo, ndisp, notSched>>

\* bin/run.py: an uncaught exception; the handler finishes the job as
\* errored and the interpreter exits with a code other than 0.
RunnerFault ==
    /\ spc = "running"
    /\ jstatus' = [jstatus EXCEPT ![cur] = errored]
    /\ spc' = "crashed"
    /\ UNCHANGED <<stages, jstage, sidx, todo, cur, ndisp, notSched>>

\* After the inner loop, without declared stages (`if stage:` is false):
\* nothing is checked.
StageUngated ==
    /\ spc = "jobs"
    /\ todo = {}
    /\ StageLoop[sidx] = None
    /\ sidx' = sidx + 1
    /\ spc' = "stage"
    /\ UNCHANGED <<stages, jstage, jstatus, todo, cur, ndisp, notSched>>

\* After the inner loop of a declared stage without jobs: min() of an
\* empty sequence raises ValueError, which ends the scheduler.
StageCheckEmpty ==
    /\ spc = "jobs"
    /\ todo = {}
    /\ StageLoop[sidx] # None
    /\ JobsOfStage(StageLoop[sidx]) = {}
    /\ spc' = "crashed"
    /\ UNCHANGED <<stages, jstage, jstatus, sidx, todo, cur, ndisp, notSched>>

\* After the inner loop of a declared stage: pipeline.reload() and the
\* minimum of the stage's jobs' statuses.  (The runners of the stage have
\* ended, so nothing writes the record between the reload and the check.)
\* Not success: sys.exit(0).
StageCheckStop ==
    /\ spc = "jobs"
    /\ todo = {}
    /\ StageLoop[sidx] # None
    /\ JobsOfStage(StageLoop[sidx]) # {}
    /\ Aggregate({jstatus[j] : j \in JobsOfStage(StageLoop[sidx])}) # success
    /\ spc' = "done"
    /\ UNCHANGED <<stages, jstage, jstatus, sidx, todo, cur, ndisp, notSched>>

\* Success: the outer loop goes on.
StageCheckPass ==
    /\ spc = "jobs"
    /\ todo = {}
    /\ StageLoop[sidx] # None
    /\ JobsOfStage(StageLoop[sidx]) # {}
    /\ Aggregate({jstatus[j] : j \in JobsOfStage(StageLoop[sidx])}) = success
    /\ sidx' = sidx + 1
    /\ spc' = "stage"
    /\ UNCHANGED <<stages, jstage, jstatus, todo, cur, ndisp, notSched>>

\* The scheduler has loaded a pipeline whose jobs have not run yet.
SchedInit ==
    /\ stages \in StageLists
    /\ jstage \in [SJobs -> StageNames \cup {None}]
    /\ jstatus = [j \in SJobs |-> pending]
    /\ spc = "stage"
    /\ sidx = 1
    /\ todo = {}
    /\ cur = 0
    /\ ndisp = [j \in SJobs |-> 0]

\* The scheduler's variables while another subsystem is looked at.
SchedParked ==
    /\ stages = <<>>
    /\ jstage = [j \in SJobs |-> None]
    /\ jstatus = [j \in SJobs |-> pending]
    /\ spc = "stage"
    /\ sidx = 1
    /\ todo = {}
    /\ cur = 0
    /\ ndisp = [j \in SJobs |-> 0]

NextSched ==
    \/ StageBegin \/ StagesDone \/ Dispatch
    \/ RunnerStart \/ RunnerAbort \/ RunnerFinish \/ RunnerFault
    \/ StageUngated \/ StageCheckEmpty \/ StageCheckStop \/ StageCheckPass

\* The position of a declared stage in the stage list, 0 for any other
\* stage value.
StageIndex(st) ==
    IF \E k \in 1..Len(stages) : stages[k] = st
    THEN CHOOSE k \in 1..Len(stages) : stages[k] = st
    ELSE 0

\* C1: stage barrier.  Whenever a job has been dispatched, every job of
\* every stage declared before the job's stage has the stored status
\* success; so while a stage holds a job whose stored status is not
\* success, no job of a later stage has been dispatched.
C1_StageBarrier ==
    \A j \in SJobs :
        ndisp[j] > 0 =>
            \A k \in 1..Len(stages) :
                k < StageIndex(jstage[j]) =>
                    \A i \in JobsOfStage(stages[k]) : jstatus[i] = success

\* C1 witness: a job of the second stage has been dispatched after the
\* jobs of the first stage ran.
C1_Witness ==
    \E j \in SJobs :
        /\ ndisp[j] > 0
        /\ StageIndex(jstage[j]) = 2
        /\ JobsOfStage(stages[1]) # {}

\* C31: sibling independence in the scheduler.  When the scheduler has
\* ended and every job it dispatched in a stage has a terminal stored
\* status (success, failed or errored), every job of that stage has been
\* dispatched.
C31_SiblingIndependence ==
    spc \in {"done", "crashed"} =>
        \A j \in SJobs :
            (/\ ndisp[j] > 0
             /\ \A i \in JobsOfStage(jstage[j]) :
                    ndisp[i] > 0 => jstatus[i] \in {success, failed, errored})
            => \A i \in JobsOfStage(jstage[j]) : ndisp[i] > 0

\* C37: dispatch coverage.  Each job is dispatched at most once, and when
\* the scheduler has ended normally and every job it dispatched has the
\* stored status success, every job of the pipeline has been dispatched
\* exactly once.
C37_DispatchCoverage ==
    /\ \A j \in SJobs : ndisp[j] <= 1
    /\ (/\ spc = "done"
        /\ \A j \in SJobs : ndisp[j] > 0 => jstatus[j] = success)
       => \A j \in SJobs : ndisp[j] = 1

\* Dispatch coverage of a pipeline whose jobs all belong to a stage of the
\* loop: a declared stage, or no stage where none is declared.
DispatchCoverageOfLoopStages ==
    /\ \A j \in SJobs : ndisp[j] <= 1
    /\ (/\ spc = "done"
        /\ \A j \in SJobs :
               \/ StageIndex(jstage[j]) > 0
               \/ (stages = <<>> /\ jstage[j] = None)
        /\ \A j \in SJobs : ndisp[j] > 0 => jstatus[j] = success)
       => \A j \in SJobs : ndisp[j] = 1

(***************************************************************************)
(* The runner bin/run.py: one invocation of james-run for one job.  The    *)
(* scheduler calls the runners of a pipeline one after the other, so the   *)
(* runner is alone on the record but for loads of observers.               *)
(***************************************************************************)
NumCmds == 2
MaxClock == 2

\* Steps.steps: the valid step names.
ValidSteps ==
    {"before_install", "install", "before_script", "script", "after_success",
     "after_failure", "before_deploy", "deploy", "after_deploy", "after_script"}

SetupSteps == <<"before_install", "install", "before_script">>
AfterSteps == <<"after_deploy", "after_script">>

\* What run.py reads from its configuration and from job.git.
RunConfigs ==
    [prolog : BOOLEAN, depth : {0, 50}, submodules : {TRUE}]

\* git_commands(job, config): the number of commands it returns.
GitCommands(conf) ==
    IF conf.depth <= 0 THEN 0 ELSE IF conf.submodules THEN 3 ELSE 2

\* Job.start_job and Job.finish_job: the status and a timestamp.
StartJob(r, t) == [r EXCEPT !.status = running, !.start = t]
FinishJob(r, st, t) == [r EXCEPT !.status = st, !.end = t]

\* Status.final()
Final(st) == st \in {canceled, errored, failed, success}

\* Control transfers inside __main__.
Goto(blk) ==
    /\ rpc' = blk
    /\ rsh' = "idle" /\ rstep' = "" /\ ridx' = 0 /\ rlen' = 0
    /\ UNCHANGED trace

\* shell.run(commands) with n commands, for the step of that name: the
\* loop starts the first command, or returns at once if there is none.
Call(step, n) ==
    /\ rstep' = step /\ ridx' = 1 /\ rlen' = n
    /\ IF n = 0 THEN rsh' = "returned" /\ UNCHANGED trace
       ELSE /\ rsh' = "cmd"
            /\ trace' = Append(trace, [step |-> step, idx |-> 1, res |-> "run"])
    /\ UNCHANGED rpc

\* finish_job(job, st, config), called by who: "exit" if sys.exit(0)
\* follows the call, "end" at the end of the program, "handler" in the hook.
CallFinish(st, who) ==
    /\ Goto("finish_write")
    /\ rfin' = [status |-> st, caller |-> who]

\* finish_job returns to its caller, which ends the process.
FinishReturn ==
    /\ Goto("exited")
    /\ rexit' = IF rfin.caller = "handler" THEN 1 ELSE 0

\* An exception leaves __main__ uncaught: sys.excepthook is called.
Uncaught(kind) ==
    /\ Goto("handler")
    /\ rfault' = kind

\* Mutant of ShellExit: a failing command does not end the loop unless it
\* is the last one.
ShellExitKeepsGoing ==
    /\ rsh = "cmd"
    /\ \E ok \in BOOLEAN :
        LET done == [trace EXCEPT ![Len(trace)].res = IF ok THEN "ok" ELSE "fail"]
        IN  IF ridx = rlen
            THEN /\ rsh' = IF ok THEN "returned" ELSE "raised"
                 /\ trace' = done /\ UNCHANGED ridx
            ELSE /\ rsh' = "cmd" /\ ridx' = ridx + 1
                 /\ trace' = Append(done, [step |-> rstep, idx |-> ridx + 1,
                                           res |-> "run"])
    /\ now' = IF now < MaxClock THEN now + 1 ELSE now
    /\ obs' = 0
    /\ UNCHANGED <<notRun, rnote, jsteps, rconf, rec, rpc, rstep, rlen, rloop,
                   rfin, rexit, rfault>>

\* Shell.run: time has passed when subprocess.check_call returns (the clock
\* is followed up to MaxClock), and the loop starts the next
\* command or ends, or check_call raises CalledProcessError, which
\* Shell.run raises again after it wrote the banner.
ShellExit ==
    /\ rsh = "cmd"
    /\ \E ok \in BOOLEAN :
        LET done == [trace EXCEPT ![Len(trace)].res = IF ok THEN "ok" ELSE "fail"]
        IN  IF ~ok THEN rsh' = "raised" /\ trace' = done /\ UNCHANGED ridx
            ELSE IF ridx = rlen
                 THEN rsh' = "returned" /\ trace' = done /\ UNCHANGED ridx
            ELSE /\ rsh' = "cmd" /\ ridx' = ridx + 1
                 /\ trace' = Append(done, [step |-> rstep, idx |-> ridx + 1,
                                           res |-> "run"])
    /\ now' = IF now < MaxClock THEN now + 1 ELSE now
    /\ obs' = 0
    /\ UNCHANGED <<notRun, rnote, jsteps, rconf, rec, rpc, rstep, rlen, rloop,
                   rfin, rexit, rfault>>

\* Mutant of RunLookup: the runner goes on with a job it did not find.
RunLookupGoesOn ==
    /\ rpc = "lookup"
    /\ \E known \in BOOLEAN :
        /\ Goto("start") /\ UNCHANGED rexit
        /\ rfault' = IF known THEN rfault ELSE "lookup"
    /\ UNCHANGED <<notRun, rnote, jsteps, rconf, rec, now, rloop, rfin, obs>>

\* The job lookup: an unknown job raises NameError before eh.job is set,
\* so that the hook only prints.
RunLookup ==
    /\ rpc = "lookup"
    /\ \E known \in BOOLEAN :
        IF known THEN Goto("start") /\ UNCHANGED <<rexit, rfault>>
                 ELSE Goto("exited") /\ rexit' = 1 /\ rfault' = "lookup"
    /\ UNCHANGED <<notRun, rnote, jsteps, rconf, rec, now, rloop, rfin, obs>>

\* with job as j: j.start_job()
RunStartJobSkipped ==
    /\ rpc = "start"
    /\ Goto("prolog")
    /\ UNCHANGED <<notRun, rnote, jsteps, rconf, rec, now, rloop, rfin, rexit,
                   rfault, obs>>

RunStartJob ==
    /\ rpc = "start"
    /\ rec' = StartJob(rec, now)
    /\ Goto("prolog")
    /\ UNCHANGED <<notRun, rnote, jsteps, rconf, now, rloop, rfin, rexit,
                   rfault, obs>>

\* The prolog script, if the configuration names one.
RunProlog ==
    /\ rpc = "prolog" /\ rsh \in {"idle", "returned"}
    /\ IF rsh = "idle" /\ rconf.prolog THEN Call("prolog", 1) ELSE Goto("clone")
    /\ UNCHANGED <<notRun, rnote, jsteps, rconf, rec, now, rloop, rfin, rexit,
                   rfault, obs>>

\* shell.run(git_commands(job, config)), then the loop over the setup steps.
RunClone ==
    /\ rpc = "clone" /\ rsh \in {"idle", "returned"}
    /\ IF rsh = "idle"
       THEN Call("clone", GitCommands(rconf)) /\ UNCHANGED rloop
       ELSE Goto("setup") /\ rloop' = 1
    /\ UNCHANGED <<notRun, rnote, jsteps, rconf, rec, now, rfin, rexit, rfault,
                   obs>>

\* for step in ['before_install', 'install', 'before_script']
RunSetup ==
    /\ rpc = "setup" /\ rsh \in {"idle", "returned"}
    /\ IF rsh = "returned" THEN Goto("setup") /\ rloop' = rloop + 1
       ELSE IF rloop > Len(SetupSteps) THEN Goto("script") /\ rloop' = 0
       ELSE IF SetupSteps[rloop] \in jsteps
            THEN Call(SetupSteps[rloop], NumCmds) /\ UNCHANGED rloop
            ELSE Goto("setup") /\ rloop' = rloop + 1
    /\ UNCHANGED <<notRun, rnote, jsteps, rconf, rec, now, rfin, rexit, rfault,
                   obs>>

\* except subprocess.CalledProcessError around the prolog, the clone and
\* the setup steps.
RunSetupExcept ==
    /\ rpc \in {"prolog", "clone", "setup"} /\ rsh = "raised"
    /\ CallFinish(errored, "exit")
    /\ UNCHANGED <<notRun, rnote, jsteps, rconf, rec, now, rloop, rexit,
                   rfault, obs>>

\* Mutant of RunScript: after a failing script the runner goes on with
\* after_success.
RunScriptFailureGoesOn ==
    /\ rpc = "script" /\ rsh \in {"idle", "returned", "raised"}
    /\ IF rsh = "idle" /\ "script" \in jsteps THEN Call("script", NumCmds)
       ELSE IF rsh = "idle" THEN Goto("before_deploy")
       ELSE Goto("after_success")
    /\ UNCHANGED <<notRun, rnote, jsteps, rconf, rec, now, rloop, rfin, rexit,
                   rfault, obs>>

\* if 'script' in job.steps: ... ; a failure runs the step named
\* 'after_failed', if job.steps has it and with its own failure suppressed,
\* and finishes the job as failed.
RunScript ==
    /\ \/ rpc = "script" /\ rsh \in {"idle", "returned", "raised"}
       \/ rpc = "after_failed" /\ rsh \in {"returned", "raised"}
    /\ CASE rpc = "script" /\ rsh = "idle" ->
              /\ IF "script" \in jsteps THEN Call("script", NumCmds)
                                        ELSE Goto("before_deploy")
              /\ UNCHANGED rfin
         [] rpc = "script" /\ rsh = "returned" ->
              Goto("after_success") /\ UNCHANGED rfin
         [] rpc = "script" /\ rsh = "raised" /\ "after_failed" \in jsteps ->
              /\ rpc' = "after_failed" /\ rsh' = "cmd"
              /\ rstep' = "after_failed" /\ ridx' = 1 /\ rlen' = NumCmds
              /\ trace' = Append(trace, [step |-> "after_failed", idx |-> 1,
                                         res |-> "run"])
              /\ UNCHANGED rfin
         [] OTHER -> CallFinish(failed, "exit")
    /\ UNCHANGED <<notRun, rnote, jsteps, rconf, rec, now, rloop, rexit,
                   rfault, obs>>

\* if 'after_success' in job.steps: with contextlib.suppress(...)
RunAfterSuccess ==
    /\ rpc = "after_success" /\ rsh \in {"idle", "returned", "raised"}
    /\ IF rsh = "idle" /\ "after_success" \in jsteps
       THEN Call("after_success", NumCmds)
       ELSE Goto("before_deploy")
    /\ UNCHANGED <<notRun, rnote, jsteps, rconf, rec, now, rloop, rfin, rexit,
                   rfault, obs>>

\* if 'before_deploy' in job.steps: a failure finishes the job as errored.
RunBeforeDeploy ==
    /\ rpc = "before_deploy" /\ rsh \in {"idle", "returned"}
    /\ IF rsh = "idle" /\ "before_deploy" \in jsteps
       THEN Call("before_deploy", NumCmds)
       ELSE Goto("deploy")
    /\ UNCHANGED <<notRun, rnote, jsteps, rconf, rec, now, rloop, rfin, rexit,
                   rfault, obs>>

RunBeforeDeployExcept ==
    /\ rpc = "before_deploy" /\ rsh = "raised"
    /\ CallFinish(errored, "exit")
    /\ UNCHANGED <<notRun, rnote, jsteps, rconf, rec, now, rloop, rexit,
                   rfault, obs>>

\* if 'deploy' in job.steps: a failure finishes the job as failed.
RunDeploy ==
    /\ rpc = "deploy" /\ rsh \in {"idle", "returned"}
    /\ IF rsh = "idle" /\ "deploy" \in jsteps
       THEN Call("deploy", NumCmds) /\ UNCHANGED rloop
       ELSE Goto("after") /\ rloop' = 1
    /\ UNCHANGED <<notRun, rnote, jsteps, rconf, rec, now, rfin, rexit, rfault,
                   obs>>

RunDeployExcept ==
    /\ rpc = "deploy" /\ rsh = "raised"
    /\ CallFinish(failed, "exit")
    /\ UNCHANGED <<notRun, rnote, jsteps, rconf, rec, now, rloop, rexit,
                   rfault, obs>>

\* for step in ['after_deploy', 'after_script'], failures suppressed; after
\* the loop and the with blocks, finish_job(job, Status.success, config).
RunAfter ==
    /\ rpc = "after" /\ rsh \in {"idle", "returned", "raised"}
    /\ IF rsh # "idle" THEN Goto("after") /\ rloop' = rloop + 1 /\ UNCHANGED rfin
       ELSE IF rloop > Len(AfterSteps)
            THEN CallFinish(success, "end") /\ rloop' = 0
       ELSE IF AfterSteps[rloop] \in jsteps
            THEN Call(AfterSteps[rloop], NumCmds) /\ UNCHANGED <<rloop, rfin>>
            ELSE Goto("after") /\ rloop' = rloop + 1 /\ UNCHANGED rfin
    /\ UNCHANGED <<notRun, rnote, jsteps, rconf, rec, now, rexit, rfault, obs>>

\* finish_job: with job as j: j.finish_job(status), and inside the block
\* the check `if not j.pipeline.status.final(): return`, which depends on
\* the other jobs of the pipeline.  Pipeline.status takes min() over the
\* jobs of each stage in turn and raises ValueError at a stage without jobs
\* once every stage before it is success: at a stage before the job's own
\* ("empty": whatever status is written) or at the stage after it
\* ("empty_next": only when success is written).  The exception leaves the
\* block, so the context is left without saving: the record is unchanged.
\* In the hook the exception ends the process ("crashed").
FinishWrite ==
    /\ rpc = "finish_write"
    /\ \E out \in {"open", "final", "empty", "empty_next"} :
        /\ out = "empty_next" => rfin.status = success /\ rfin.caller # "handler"
        /\ rfault = "status" => out = "empty"
        /\ rfault = "status_success" => out = "final"
        /\ rfault = "notify" => out \in {"open", "final"}
        /\ IF out \in {"open", "final"}
           THEN /\ rec' = FinishJob(rec, rfin.status, now)
                /\ UNCHANGED rfault
                /\ IF out = "final" THEN Goto("finish_notify") /\ UNCHANGED rexit
                                    ELSE FinishReturn
           ELSE /\ UNCHANGED rec
                /\ IF rfin.caller = "handler"
                   THEN Goto("crashed") /\ rexit' = 1 /\ UNCHANGED rfault
                   ELSE /\ Uncaught(IF out = "empty" THEN "status"
                                                    ELSE "status_success")
                        /\ UNCHANGED rexit
    /\ UNCHANGED <<notRun, rnote, jsteps, rconf, now, rloop, rfin, obs>>

\* finish_job: the notification scripts, if the configuration has any, run
\* by subprocess.check_call outside any try block.  In the hook an
\* exception ends the process.  (The configuration is the same in the hook:
\* it has the scripts if one of them raised before.)
FinishNotify ==
    /\ rpc = "finish_notify"
    /\ \E has \in BOOLEAN, failing \in BOOLEAN :
        /\ rfault = "notify" => has
        /\ failing => has
        /\ rnote' = IF has THEN rnote + 1 ELSE rnote
        /\ IF ~failing THEN FinishReturn /\ UNCHANGED rfault
           ELSE IF rfin.caller = "handler"
                THEN Goto("exited") /\ rexit' = 1 /\ UNCHANGED rfault
                ELSE Uncaught("notify") /\ UNCHANGED rexit
    /\ UNCHANGED <<notRun, jsteps, rconf, rec, now, rloop, rfin, obs>>

\* Any other exception in __main__ once eh.job is set: an engine fault.
RunFault ==
    /\ rpc \notin {"lookup", "handler", "exited", "crashed"}
    /\ rsh = "idle"
    /\ rfin.caller # "handler"
    /\ Uncaught("engine")
    /\ UNCHANGED <<notRun, rnote, jsteps, rconf, rec, now, rloop, rfin, rexit,
                   obs>>

\* Mutant of RunHandler: the hook finishes the job as canceled.
RunHandlerCanceled ==
    /\ rpc = "handler"
    /\ CallFinish(canceled, "handler")
    /\ UNCHANGED <<notRun, rnote, jsteps, rconf, rec, now, rloop, rexit,
                   rfault, obs>>

\* ExceptionHandler.handler: print, then finish_job(cls.job, errored, ...).
RunHandler ==
    /\ rpc = "handler"
    /\ CallFinish(errored, "handler")
    /\ UNCHANGED <<notRun, rnote, jsteps, rconf, rec, now, rloop, rexit,
                   rfault, obs>>

\* An observer loads the record while a command of the job is running.
ObserverLoad ==
    /\ rsh = "cmd" /\ obs # rec.status
    /\ obs' = rec.status
    /\ UNCHANGED <<notRun, rnote, jsteps, rconf, rec, now, rpc, rsh, rstep, ridx,
                   rlen, rloop, rfin, rexit, trace, rfault>>

RunIdle ==
    /\ rec = [status |-> pending, start |-> 0, end |-> 0]
    /\ now = 1
    /\ rpc = "lookup" /\ rsh = "idle" /\ rstep = "" /\ ridx = 0 /\ rlen = 0
    /\ rloop = 0
    /\ rfin = [status |-> 0, caller |-> ""]
    /\ rexit = -1
    /\ trace = <<>>
    /\ rfault = "none"
    /\ obs = 0
    /\ rnote = 0

RunInit ==
    /\ jsteps \in SUBSET ValidSteps
    /\ rconf \in RunConfigs
    /\ RunIdle

RunParked ==
    /\ jsteps = {}
    /\ rconf = [prolog |-> FALSE, depth |-> 0, submodules |-> TRUE]
    /\ RunIdle

NextRun ==
    \/ ShellExit
    \/ RunLookup \/ RunStartJob \/ RunProlog \/ RunClone \/ RunSetup
    \/ RunSetupExcept \/ RunScript \/ RunAfterSuccess
    \/ RunBeforeDeploy \/ RunBeforeDeployExcept
    \/ RunDeploy \/ RunDeployExcept \/ RunAfter
    \/ FinishWrite \/ FinishNotify
    \/ RunFault \/ RunHandler
    \/ ObserverLoad

(***************************************************************************)
(* Claims about the runner.                                                *)
(***************************************************************************)
Exited == rexit # -1
SetupNames == {"prolog", "clone", "before_install", "install", "before_script"}
FailFastNames == SetupNames \cup {"script", "before_deploy", "deploy"}
Ran(step) == \E k \in 1..Len(trace) : trace[k].step = step
FailedIn(S) ==
    \E k \in 1..Len(trace) : trace[k].step \in S /\ trace[k].res = "fail"

\* The last thing executed is the failing command of a step of the set S.
LastFailedIn(S) ==
    /\ trace # <<>>
    /\ trace[Len(trace)].step \in S
    /\ trace[Len(trace)].res = "fail"

\* C11: running first.  The record has status running and a start
\* timestamp before any command is started, and it has them whenever a
\* command of the job is running, so that is what a load made then returns.
C11_RunningFirst ==
    /\ trace # <<>> => rec.start # 0
    /\ rsh = "cmd" => rec.status = running /\ rec.start # 0
    /\ obs \in {0, running}

\* C11 witness: an observer has loaded the record while a command of the
\* script step was running.
C11_Witness ==
    /\ rsh = "cmd" /\ rstep = "script" /\ obs = running

\* C12: setup failure.  A failing command of the prolog, the clone or a
\* setup step is the last command executed, and the job's stored status is
\* errored when the process has ended.
C12_SetupFailure ==
    \A k \in 1..Len(trace) :
        (trace[k].step \in SetupNames /\ trace[k].res = "fail") =>
            /\ k = Len(trace)
            /\ Exited => rec.status = errored

\* C13: script failure with after_failure.  When a command of script has
\* failed in a job that defines after_failure, the after_failure commands
\* have been executed by the time the process ends, the stored status is
\* failed and no later step has been executed.
C13_AfterFailureRuns ==
    (rexit = 0 /\ FailedIn({"script"}) /\ "after_failure" \in jsteps) =>
        /\ Ran("after_failure")
        /\ rec.status = failed
        /\ \A k \in 1..Len(trace) :
               trace[k].step \notin {"after_success", "before_deploy", "deploy",
                                      "after_deploy", "after_script"}

\* C14: success path.  When the process has ended without an engine fault
\* and every command it executed succeeded, the stored status is success
\* and start and end are set with start <= end.
C14_SuccessPath ==
    (/\ Exited /\ rfault \notin {"lookup", "engine"}
     /\ \A k \in 1..Len(trace) : trace[k].res = "ok") =>
        /\ rec.status = success
        /\ rec.start # 0 /\ rec.end # 0 /\ rec.start <= rec.end

\* C16: missing script.  A job without a script step ends with the stored
\* status errored.
C16_MissingScript ==
    (Exited /\ rfault # "lookup" /\ "script" \notin jsteps) =>
        rec.status = errored

\* C17: before_deploy policy.  A failing command of before_deploy is the
\* last command executed, and the stored status is errored when the
\* process has ended.
C17_BeforeDeployErrored ==
    \A k \in 1..Len(trace) :
        (trace[k].step = "before_deploy" /\ trace[k].res = "fail") =>
            /\ k = Len(trace)
            /\ Exited => rec.status = errored

\* C18: deploy policy.  A failing command of deploy is the last command
\* executed, and unless an engine fault occurred the stored status is
\* failed when the process has ended.
C18_DeployFailed ==
    \A k \in 1..Len(trace) :
        (trace[k].step = "deploy" /\ trace[k].res = "fail") =>
            /\ k = Len(trace)
            /\ (Exited /\ rfault # "engine") => rec.status = failed

\* C19: fail-soft steps.  When the process has ended without an engine
\* fault and no command of a fail-fast step failed, then whatever failed in
\* after_success, after_deploy or after_script, every defined step from
\* before_deploy on has been executed and the stored status is success.
C19_FailSoft ==
    (/\ Exited /\ rfault \notin {"lookup", "engine"}
     /\ ~FailedIn(FailFastNames)) =>
        /\ \A s \in jsteps \cap {"before_deploy", "deploy", "after_deploy",
                                   "after_script"} : Ran(s)
        /\ rec.status = success

\* bin/run.py alone under an engine fault.  When an uncaught exception
\* other than a command failure occurred after the job was loaded and the
\* hook itself did not raise, the stored status is errored and an end
\* timestamp is set when the process has ended.
RunFaultForcesErrored ==
    (rpc = "exited" /\ rfault = "engine") =>
        rec.status = errored /\ rec.end # 0

\* C21: command failures do not crash the runner.  When the process has
\* ended after a command of some step failed, and no engine fault occurred,
\* the exit code is 0 and the stored status is errored, failed or success.
C21_NoCrash ==
    (/\ Exited /\ rfault \notin {"lookup", "engine"}
     /\ \E k \in 1..Len(trace) : trace[k].res = "fail") =>
        /\ rexit = 0
        /\ rec.status \in {errored, failed, success}

\* bin/run.py when nothing but commands of steps fails.  The process ends
\* with exit code 0 and a terminal stored status.
RunCommandFailuresHandled ==
    (Exited /\ rfault = "none") =>
        rexit = 0 /\ rec.status \in {errored, failed, success}

\* C25: notification once.  In one run of the runner the notify scripts
\* are executed at most once, and only after the job's terminal status was
\* written; so over the runs of a pipeline's jobs they are executed once,
\* by the runner whose write made the pipeline final.
C25_NotifyOnce ==
    /\ rnote <= 1
    /\ rnote > 0 => Final(rec.status) /\ rec.end # 0

\* C34: terminal statuses are stable.  Once the job's stored status is
\* canceled, errored, failed or success, no step of the runner changes the
\* stored status again.
C34_TerminalStable ==
    [][Final(rec.status) => rec'.status = rec.status]_vars

\* C38: runner termination.  When the process of a runner called for an
\* existing job has ended, the job's stored status is errored, failed or
\* success and the record has an end timestamp.
C38_EndsTerminal ==
    (Exited /\ rfault # "lookup") =>
        rec.status \in {errored, failed, success} /\ rec.end # 0

\* C27: the engine never generates canceled.  Every write of the runner to
\* the job's stored record leaves the status running, errored, failed or
\* success.
C27_NeverCanceled ==
    [][rec' # rec => rec'.status \in {running, errored, failed, success}]_vars

\* C27 witness: the exception hook has finished the job after an engine
\* fault that followed the start of the job.
C27_Witness ==
    /\ Exited /\ rfault = "engine" /\ rfin.caller = "handler"
    /\ rec.start # 0 /\ rec.status = errored

\* C28: unknown job or pipeline.  When the runner was called for a job or
\* a pipeline that is not there, the stored record is as it was, no command
\* was executed and no notification made, and the process ends with an
\* exit code other than 0.
C28_UnknownJob ==
    rfault = "lookup" =>
        /\ rec = [status |-> pending, start |-> 0, end |-> 0]
        /\ trace = <<>> /\ rnote = 0
        /\ rpc = "exited" /\ rexit # 0

\* C28 witness: the runner has ended on an unknown job.
C28_Witness ==
    /\ rfault = "lookup" /\ Exited /\ rec.status = pending

\* The place of a step in the order of __main__.
StepOrder ==
    <<{"prolog"}, {"clone"}, {"before_install"}, {"install"},
      {"before_script"}, {"script"},
      {"after_success", "after_failure", "after_failed"},
      {"before_deploy"}, {"deploy"}, {"after_deploy"}, {"after_script"}>>

StepRank ==
    [step \in UNION {StepOrder[k] : k \in 1..Len(StepOrder)} |->
        CHOOSE k \in 1..Len(StepOrder) : step \in StepOrder[k]]

\* C29: strict step order.  The commands executed belong to steps in the
\* fixed order, the commands of one step are executed in one go (a step is
\* executed at most once), a command is started only when the one before
\* it has ended, and after_success is executed only after script was
\* executed with all its commands succeeding.
C29_StepOrder ==
    /\ \A k \in 1..(Len(trace) - 1) :
          LET this == trace[k]
              next == trace[k + 1]
              rthis == StepRank[this.step]
              rnext == StepRank[next.step]
          IN  /\ this.res # "run"
              /\ rthis <= rnext
              /\ rthis = rnext =>
                    this.step = next.step /\ next.idx = this.idx + 1
              /\ rthis < rnext => next.idx = 1
    /\ Ran("after_success") =>
          /\ ~FailedIn({"script"})
          /\ \E k \in 1..Len(trace) :
                /\ trace[k].step = "script" /\ trace[k].idx = NumCmds
                /\ trace[k].res = "ok"

\* C29 witness: a job that defines every step but after_failure, with a
\* prolog and a clone, has executed all of them and ended.
C29_Witness ==
    /\ rexit = 0 /\ rnote = 0
    /\ \A step \in {"prolog", "clone"} \cup (ValidSteps \ {"after_failure"}) :
          Ran(step)

\* C30: commands within a step.  The commands of a step are executed in
\* the declared order, each after the one before it succeeded; after a
\* failing command no further command of the step is executed; and when
\* the failing step is after_success or after_deploy, the next defined step
\* is executed all the same.
C30_CommandOrder ==
    /\ \A k \in 1..Len(trace) :
          /\ trace[k].idx >= 1
          /\ trace[k].idx > 1 =>
                /\ trace[k - 1].step = trace[k].step
                /\ trace[k - 1].idx = trace[k].idx - 1
                /\ trace[k - 1].res = "ok"
          /\ (trace[k].res = "fail" /\ k < Len(trace)) =>
                trace[k + 1].step # trace[k].step
    /\ (Exited /\ rfault # "engine") =>
          /\ (FailedIn({"after_deploy"}) /\ "after_script" \in jsteps) =>
                Ran("after_script")
          /\ (FailedIn({"after_success"}) /\ "before_deploy" \in jsteps) =>
                Ran("before_deploy")

\* C30 witness: the first command of after_deploy failed, its second
\* command was not executed, after_script was, and the runner has ended.
C30_Witness ==
    /\ rexit = 0
    /\ \E k \in 1..Len(trace) :
          /\ trace[k].step = "after_deploy" /\ trace[k].idx = 1
          /\ trace[k].res = "fail"
    /\ \A k \in 1..Len(trace) :
          trace[k].step = "after_deploy" => trace[k].idx = 1
    /\ Ran("after_script")

(***************************************************************************)
(* The legacy runner bin/runner.py.  main() keeps the job in a local       *)
(* variable; finish_job and the exception hook name a global `job`, which  *)
(* the module never binds.  A step is executed as a whole here: Shell.run  *)
(* returns or raises CalledProcessError.                                   *)
(***************************************************************************)
\* The keys the legacy runner asks the job for; it reads the stored
\* mapping as it is, so any key may be there.
LegacyKeys == ValidSteps \cup {"after_failed"}

LegacyGoto(blk) == lpc' = blk /\ lloop' = 0

\* shell.run(commands) for a step: it returns (ok) or raises.
LegacyRun(step, ok) ==
    ltrace' = Append(ltrace, [step |-> step, res |-> IF ok THEN "ok" ELSE "fail"])

\* finish_job(status, exit) is called.
LegacyCallFinish(st, ex) ==
    /\ LegacyGoto("finish")
    /\ lfin' = [status |-> st, exit |-> ex]

\* An exception leaves main() uncaught.
LegacyUncaught(kind) ==
    /\ LegacyGoto("handler")
    /\ lfault' = kind

\* jamesci.LegacyJob(...): a missing file or job ends in sys.exit(message).
LegacyLoad ==
    /\ lpc = "load"
    /\ \E found \in BOOLEAN :
        IF found THEN LegacyGoto("start") /\ UNCHANGED <<lexit, lfault>>
                 ELSE LegacyGoto("exited") /\ lexit' = 1 /\ lfault' = "load"
    /\ UNCHANGED <<notLeg, lkeys, lconf, lrec, lfin, ltrace>>

\* with job: job.status = running; job['meta']['start'] = now
LegacyStart ==
    /\ lpc = "start"
    /\ lrec' = [lrec EXCEPT !.status = running, !.start = 1]
    /\ LegacyGoto("prolog")
    /\ UNCHANGED <<notLeg, lkeys, lconf, lfin, lexit, ltrace, lfault>>

\* The prolog script: a failure calls finish_job(errored).
LegacyProlog ==
    /\ lpc = "prolog"
    /\ IF ~lconf.prolog THEN LegacyGoto("clone") /\ UNCHANGED <<ltrace, lfin>>
       ELSE \E ok \in BOOLEAN :
            /\ LegacyRun("prolog", ok)
            /\ IF ok THEN LegacyGoto("clone") /\ UNCHANGED lfin
                     ELSE LegacyCallFinish(errored, TRUE)
    /\ UNCHANGED <<notLeg, lkeys, lconf, lrec, lexit, lfault>>

\* The git commands, unless the depth is 0: a failure calls
\* finish_job(errored).
LegacyClone ==
    /\ lpc = "clone"
    /\ IF lconf.depth <= 0
       THEN lpc' = "setup" /\ lloop' = 1 /\ UNCHANGED <<ltrace, lfin>>
       ELSE \E ok \in BOOLEAN :
            /\ LegacyRun("clone", ok)
            /\ IF ok THEN lpc' = "setup" /\ lloop' = 1 /\ UNCHANGED lfin
                     ELSE LegacyCallFinish(errored, TRUE)
    /\ UNCHANGED <<notLeg, lkeys, lconf, lrec, lexit, lfault>>

\* for step in ['before_install', 'install', 'before_script']: a failure
\* calls finish_job(errored).
LegacySetup ==
    /\ lpc = "setup"
    /\ IF lloop > Len(SetupSteps)
       THEN LegacyGoto("script") /\ UNCHANGED <<ltrace, lfin>>
       ELSE IF SetupSteps[lloop] \notin lkeys
            THEN lloop' = lloop + 1 /\ UNCHANGED <<lpc, ltrace, lfin>>
       ELSE \E ok \in BOOLEAN :
            /\ LegacyRun(SetupSteps[lloop], ok)
            /\ IF ok THEN lloop' = lloop + 1 /\ UNCHANGED <<lpc, lfin>>
                     ELSE LegacyCallFinish(errored, TRUE)
    /\ UNCHANGED <<notLeg, lkeys, lconf, lrec, lexit, lfault>>

\* shell.run(job['script']): a failure runs 'after_failed', if the job has
\* that key, and calls finish_job(failed); a missing key is a KeyError,
\* whose handler names the module colors, which runner.py does not import.
LegacyScript ==
    /\ lpc = "script"
    /\ IF "script" \notin lkeys
       THEN LegacyUncaught("name") /\ UNCHANGED <<ltrace, lfin>>
       ELSE \E ok \in BOOLEAN :
            IF ok THEN /\ LegacyRun("script", TRUE)
                       /\ LegacyGoto("after_success") /\ UNCHANGED lfin
            ELSE /\ IF "after_failed" \in lkeys
                    THEN \E ok2 \in BOOLEAN :
                         ltrace' = ltrace \o
                            << [step |-> "script", res |-> "fail"],
                               [step |-> "after_failed",
                                res |-> IF ok2 THEN "ok" ELSE "fail"] >>
                    ELSE LegacyRun("script", FALSE)
                 /\ LegacyCallFinish(failed, TRUE)
    /\ UNCHANGED <<notLeg, lkeys, lconf, lrec, lexit>>
    /\ "script" \in lkeys => UNCHANGED lfault

\* after_success: a failure is ignored.
LegacyAfterSuccess ==
    /\ lpc = "after_success"
    /\ IF "after_success" \notin lkeys THEN UNCHANGED ltrace
       ELSE \E ok \in BOOLEAN : LegacyRun("after_success", ok)
    /\ LegacyGoto("before_deploy")
    /\ UNCHANGED <<notLeg, lkeys, lconf, lrec, lfin, lexit, lfault>>

\* before_deploy: a failure calls finish_job(errored).
LegacyBeforeDeploy ==
    /\ lpc = "before_deploy"
    /\ IF "before_deploy" \notin lkeys
       THEN LegacyGoto("deploy") /\ UNCHANGED <<ltrace, lfin>>
       ELSE \E ok \in BOOLEAN :
            /\ LegacyRun("before_deploy", ok)
            /\ IF ok THEN LegacyGoto("deploy") /\ UNCHANGED lfin
                     ELSE LegacyCallFinish(errored, TRUE)
    /\ UNCHANGED <<notLeg, lkeys, lconf, lrec, lexit, lfault>>

\* deploy: a failure calls finish_job(failed).
LegacyDeploy ==
    /\ lpc = "deploy"
    /\ IF "deploy" \notin lkeys
       THEN lpc' = "after" /\ lloop' = 1 /\ UNCHANGED <<ltrace, lfin>>
       ELSE \E ok \in BOOLEAN :
            /\ LegacyRun("deploy", ok)
            /\ IF ok THEN lpc' = "after" /\ lloop' = 1 /\ UNCHANGED lfin
                     ELSE LegacyCallFinish(failed, TRUE)
    /\ UNCHANGED <<notLeg, lkeys, lconf, lrec, lexit, lfault>>

\* for step in ['after_deploy', 'after_script'], failures ignored; then
\* finish_job(jamesci.Status.errored, exit=False).
LegacyAfter ==
    /\ lpc = "after"
    /\ IF lloop > Len(AfterSteps)
       THEN LegacyCallFinish(errored, FALSE) /\ UNCHANGED ltrace
       ELSE /\ IF AfterSteps[lloop] \notin lkeys THEN UNCHANGED ltrace
               ELSE \E ok \in BOOLEAN : LegacyRun(AfterSteps[lloop], ok)
            /\ lloop' = lloop + 1 /\ UNCHANGED <<lpc, lfin>>
    /\ UNCHANGED <<notLeg, lkeys, lconf, lrec, lexit, lfault>>

\* finish_job: `with job:` names the unbound global job, a NameError.
LegacyFinishJob ==
    /\ lpc = "finish"
    /\ LegacyUncaught("name")
    /\ UNCHANGED <<notLeg, lkeys, lconf, lrec, lfin, lexit, ltrace>>

\* Any other exception in main() once eh.job is set: an engine fault.
LegacyFault ==
    /\ lpc \notin {"load", "handler", "exited"}
    /\ LegacyUncaught("engine")
    /\ UNCHANGED <<notLeg, lkeys, lconf, lrec, lfin, lexit, ltrace>>

\* ExceptionHandler.handler: `job.status = errored` names the unbound
\* global job as well, so the hook itself raises and nothing is stored.
LegacyHandler ==
    /\ lpc = "handler"
    /\ LegacyGoto("exited") /\ lexit' = 1
    /\ UNCHANGED <<notLeg, lkeys, lconf, lrec, lfin, ltrace, lfault>>

LegacyIdle ==
    /\ lrec = [status |-> pending, start |-> 0, end |-> 0]
    /\ lpc = "load" /\ lloop = 0
    /\ lfin = [status |-> 0, exit |-> FALSE]
    /\ lexit = -1
    /\ ltrace = <<>>
    /\ lfault = "none"

LegacyInit ==
    /\ lkeys \in SUBSET LegacyKeys
    /\ lconf \in [prolog : BOOLEAN, depth : {0, 50}]
    /\ LegacyIdle

LegacyParked ==
    /\ lkeys = {}
    /\ lconf = [prolog |-> FALSE, depth |-> 0]
    /\ LegacyIdle

NextLegacy ==
    \/ LegacyLoad \/ LegacyStart \/ LegacyProlog \/ LegacyClone \/ LegacySetup
    \/ LegacyScript \/ LegacyAfterSuccess \/ LegacyBeforeDeploy
    \/ LegacyDeploy \/ LegacyAfter
    \/ LegacyFinishJob \/ LegacyFault \/ LegacyHandler

\* C15: success path of the legacy runner.  When the process has ended and
\* every step it executed succeeded (script among them), the stored status
\* is success and an end timestamp is set.
C15_LegacySuccess ==
    (/\ lexit # -1 /\ lfault # "engine"
     /\ \E k \in 1..Len(ltrace) : ltrace[k].step = "script"
     /\ \A k \in 1..Len(ltrace) : ltrace[k].res = "ok") =>
        lrec.status = success /\ lrec.end # 0

\* C20: engine fault, in either runner.  When an uncaught exception other
\* than a command failure occurred after the job was loaded, the stored
\* status is errored and an end timestamp is set when the process has ended.
C20_EngineFault ==
    /\ RunFaultForcesErrored
    /\ (lexit # -1 /\ lfault = "engine") =>
           lrec.status = errored /\ lrec.end # 0

(***************************************************************************)
(* Status queries: Pipeline.status (jamesci/pipeline.py) and the stage     *)
(* check of bin/schedule.py, on any stored pipeline.  The record is read   *)
(* as it is: any job may name any stage and have any status.               *)
(***************************************************************************)
\* Bound: the number of job names.
NumQJobs == 2

QJobs == 1..NumQJobs

\* min() of an empty sequence raises ValueError.
ValueError == -1

\* The jobs dictionaries: some of the names, each with a stage and a status.
QRecords ==
    UNION {[J -> [stage : StageNames \cup {None}, status : Status]] :
             J \in SUBSET QJobs}

\* (job.status for job in jobs.values() if job.stage == stage)
StageStatuses(jobs, st) ==
    {jobs[j].status : j \in {i \in DOMAIN jobs : jobs[i].stage = st}}

\* min(...) of that generator.
MinStatus(S) == IF S = {} THEN ValueError ELSE Aggregate(S)

\* Pipeline.status: the loop over the stages, from the k-th on.
RECURSIVE StatusFrom(_, _, _)
StatusFrom(k, loop, jobs) ==
    IF k > Len(loop) THEN success
    ELSE LET status == MinStatus(StageStatuses(jobs, loop[k]))
         IN  IF status # success THEN status
             ELSE StatusFrom(k + 1, loop, jobs)

PipelineStatus(stgs, jobs) ==
    StatusFrom(1, IF stgs = <<>> THEN <<None>> ELSE stgs, jobs)

\* pipeline.status is read.
PipelineStatusQuery ==
    /\ qres.fn = "none"
    /\ qres' = [fn |-> "status", stage |-> None,
                val |-> PipelineStatus(qstages, qjobs)]
    /\ UNCHANGED <<notStat, qstages, qjobs>>

\* bin/schedule.py after the jobs of a declared stage: min(job.status for
\* the jobs of the stage).
StageStatusQuery ==
    /\ qres.fn = "none"
    /\ \E k \in 1..Len(qstages) :
          qres' = [fn |-> "stage", stage |-> qstages[k],
                   val |-> MinStatus(StageStatuses(qjobs, qstages[k]))]
    /\ UNCHANGED <<notStat, qstages, qjobs>>

StatusInit ==
    /\ qstages \in StageLists
    /\ qjobs \in QRecords
    /\ qres = [fn |-> "none", stage |-> None, val |-> 0]

StatusParked ==
    /\ qstages = <<>>
    /\ qjobs = <<>>
    /\ qres = [fn |-> "none", stage |-> None, val |-> 0]

NextStatus == PipelineStatusQuery \/ StageStatusQuery

\* The order the statuses are declared in.
DeclaredOrder ==
    <<created, pending, running, canceled, errored, failed, success>>

\* The position of a status in that order.
Rank(st) == CHOOSE k \in 1..Len(DeclaredOrder) : DeclaredOrder[k] = st

\* The statuses the stage query was made on.
QueriedStatuses == StageStatuses(qjobs, qres.stage)

\* C22: aggregation is the minimum.  The aggregate of a non-empty collection
\* of statuses is its least member under created < pending < running <
\* canceled < errored < failed < success: it is success only if every
\* member is success, and not terminal if a member is created, pending or
\* running.
C22_AggregateIsMinimum ==
    (qres.fn = "stage" /\ QueriedStatuses # {}) =>
        /\ qres.val \in QueriedStatuses
        /\ \A x \in QueriedStatuses : Rank(qres.val) <= Rank(x)
        /\ qres.val = success <=> QueriedStatuses = {success}
        /\ QueriedStatuses \cap {created, pending, running} # {} =>
               qres.val \in {created, pending, running}

\* C22 witness: the aggregate of a running and a failed job is running.
C22_Witness ==
    /\ qres.fn = "stage"
    /\ QueriedStatuses = {running, failed}
    /\ qres.val = running

\* The stages Pipeline.status iterates.
QLoop == IF qstages = <<>> THEN <<None>> ELSE qstages

\* C23: the aggregate of no jobs is success.  Pipeline.status of a pipeline
\* without jobs is success, Pipeline.status is success when every stage
\* that has jobs is success, and the stage check on a declared stage
\* without jobs gives success.
C23_EmptyIsSuccess ==
    /\ (qres.fn = "status" /\ DOMAIN qjobs = {}) => qres.val = success
    /\ (/\ qres.fn = "status"
        /\ \A k \in 1..Len(QLoop) :
               StageStatuses(qjobs, QLoop[k]) \subseteq {success}) =>
           qres.val = success
    /\ (qres.fn = "stage" /\ QueriedStatuses = {}) => qres.val = success

\* C24: Pipeline.status gives the aggregate of the first stage, in the
\* declared order, whose aggregate is not success, and success if there is
\* none; without declared stages the only stage is the implicit one.  (The
\* aggregate is the minimum, and success for a stage without jobs.)
C24_FirstNotSuccess ==
    LET agg(k) == LET S == StageStatuses(qjobs, QLoop[k])
                  IN  IF S = {} THEN success ELSE SetMin(S)
        notSuccess == {k \in 1..Len(QLoop) : agg(k) # success}
    IN  qres.fn = "status" =>
            IF notSuccess = {} THEN qres.val = success
            ELSE qres.val = agg(SetMin(notSuccess))

\* Pipeline.status on pipelines all of whose iterated stages have jobs.
StatusOfPopulatedStages ==
    (/\ qres.fn = "status"
     /\ \A k \in 1..Len(QLoop) : StageStatuses(qjobs, QLoop[k]) # {}) =>
        C24_FirstNotSuccess

(***************************************************************************)
(* The configuration chain of jamesci/job_base.py: env and git of a job    *)
(* whose parent is its pipeline.  A stored value is None or a mapping; an  *)
(* env mapping is given as the set of its NAME=value entries, a git        *)
(* mapping by the set of values (none or one) stored under each key.       *)
(***************************************************************************)
EnvMaps == SUBSET {"A=1", "B=2"}

NoneEnv == [none |-> TRUE, map |-> {}]

StoredEnvs == {NoneEnv} \cup {[none |-> FALSE, map |-> m] : m \in EnvMaps}

GitKeys == {"depth", "submodules"}

NoneGit == [none |-> TRUE, depth |-> {}, submodules |-> {}]

EmptyGit == [none |-> FALSE, depth |-> {}, submodules |-> {}]

StoredGits ==
    {NoneGit} \cup [none : {FALSE}, depth : {{}, {0}, {10}},
                    submodules : {{}, {TRUE}, {FALSE}}]

\* {'depth': 50, 'submodules': True}
GitDefaults == [none |-> FALSE, depth |-> {50}, submodules |-> {TRUE}]

\* The truth value Python gives None and mappings.
EnvTruthy(e) == ~e.none /\ e.map # {}
GitTruthy(g) == ~g.none /\ (g.depth # {} \/ g.submodules # {})

\* JobBase.env of the pipeline, which has no parent.
PipelineEnv(p) == IF EnvTruthy(p.env) THEN p.env ELSE NoneEnv

\* Mutant of JobEnv: the pipeline's env first.
JobEnvParentFirst(j, p) ==
    IF EnvTruthy(p.env) THEN p.env ELSE PipelineEnv(j)

\* JobBase.env of the job, whose parent is the pipeline.
JobEnv(j, p) == IF EnvTruthy(j.env) THEN j.env ELSE PipelineEnv(p)

\* collections.ChainMap(...)[key]: the value of the first mapping of the
\* chain that has the key.
ChainLookup(chain, key) ==
    LET first == CHOOSE i \in 1..Len(chain) :
                    /\ chain[i][key] # {}
                    /\ \A h \in 1..(i - 1) : chain[h][key] = {}
    IN  chain[first][key]

\* self._git if self._git else {}
GitOrEmpty(g) == IF GitTruthy(g) THEN g ELSE EmptyGit

\* JobBase.git of the pipeline: its own mapping, {} for the missing
\* parent, the defaults.
PipelineGit(p) ==
    [key \in GitKeys |->
        ChainLookup(<<GitOrEmpty(p.git), EmptyGit, GitDefaults>>, key)]

\* JobBase.git of the job: its own mapping, the pipeline's chain, the
\* defaults.
JobGit(j, p) ==
    [key \in GitKeys |->
        ChainLookup(<<GitOrEmpty(j.git), PipelineGit(p), GitDefaults>>, key)]

\* job.env and job.git are read (bin/run.py reads them for the environment
\* and for the git commands).
Resolve ==
    /\ ~cres.asked
    /\ cres' = [asked |-> TRUE, raised |-> FALSE, env |-> JobEnv(cjob, cpipe),
                git |-> JobGit(cjob, cpipe)]
    /\ UNCHANGED <<notConf, cjob, cpipe>>

\* An item assignment on what was returned: both properties return a
\* types.MappingProxyType, which raises TypeError.
ProxyAssign ==
    /\ cres.asked /\ ~cres.raised
    /\ cres' = [cres EXCEPT !.raised = TRUE]
    /\ UNCHANGED <<notConf, cjob, cpipe>>

ConfIdle ==
    cres = [asked |-> FALSE, raised |-> FALSE, env |-> NoneEnv,
            git |-> [key \in GitKeys |-> {}]]

ConfInit ==
    /\ cjob \in [env : StoredEnvs, git : StoredGits]
    /\ cpipe \in [env : StoredEnvs, git : StoredGits]
    /\ ConfIdle

ConfParked ==
    /\ cjob = [env |-> NoneEnv, git |-> NoneGit]
    /\ cpipe = [env |-> NoneEnv, git |-> NoneGit]
    /\ ConfIdle

NextConf == Resolve \/ ProxyAssign

\* The git settings resolve, per key, to the job's value if it has one,
\* else the pipeline's if it has one, else the default.
GitResolvedPerKey ==
    \A key \in GitKeys :
        cres.git[key] = IF cjob.git[key] # {} THEN cjob.git[key]
                        ELSE IF cpipe.git[key] # {} THEN cpipe.git[key]
                        ELSE GitDefaults[key]

\* C26 as stated: the effective env is the job's own env if the job defines
\* one (any mapping, the empty one too), otherwise the pipeline's; git
\* resolves per key; the stored values are never modified.
C26_ResolutionChain ==
    /\ [](cres.asked =>
            /\ cres.env.map = IF ~cjob.env.none THEN cjob.env.map
                               ELSE cpipe.env.map
            /\ GitResolvedPerKey)
    /\ [][cjob' = cjob /\ cpipe' = cpipe]_vars

\* C26, amended: the effective env is the job's own env if the job defines
\* a non-empty one, otherwise the pipeline's env if that is non-empty,
\* otherwise None; git resolves per key; the stored values are never
\* modified.
C26_ResolutionChainNonEmpty ==
    /\ [](cres.asked =>
            /\ cres.env = IF ~cjob.env.none /\ cjob.env.map # {} THEN cjob.env
                           ELSE IF ~cpipe.env.none /\ cpipe.env.map # {}
                                THEN cpipe.env
                           ELSE NoneEnv
            /\ GitResolvedPerKey)
    /\ [][cjob' = cjob /\ cpipe' = cpipe]_vars

\* C26 witness: the job and the pipeline define different env mappings and
\* the job's one was returned; the job defines git.depth only, and
\* submodules came from the pipeline.
C26_Witness ==
    /\ cres.asked
    /\ cjob.env.map = {"A=1"} /\ cpipe.env.map = {"B=2"}
    /\ cres.env.map = {"A=1"}
    /\ cjob.git.depth = {0} /\ cjob.git.submodules = {}
    /\ cpipe.git.submodules = {FALSE} /\ cpipe.git.depth = {10}
    /\ cres.git = [depth |-> {0}, submodules |-> {FALSE}]

(***************************************************************************)
(* Steps (jamesci/steps.py): the container of a job's or a pipeline's      *)
(* steps, constructed from the configuration and dumped into the record.   *)
(* JobSteps (jamesci/jobsteps.py) imports and dumps in the same way.       *)
(***************************************************************************)

\* Bound: how many of the step names a configuration may define.
NumStepNames == 2

\* Steps.steps: the valid step names, in their order.
steps ==
    <<"before_install", "install", "before_script", "script", "after_success",
      "after_failure", "before_deploy", "deploy", "after_deploy",
      "after_script">>

DataSteps == {steps[i] : i \in 1..NumStepNames}

\* The values a configuration gives a step: a bare command, or a list of
\* commands, which may be empty.
StepCommands == {"a", "b"}
Bare(c) == [list |-> FALSE, cmds |-> <<c>>]
List(q) == [list |-> TRUE, cmds |-> q]
StepValues ==
    {Bare(c) : c \in StepCommands}
        \cup {List(q) : q \in UNION {[1..n -> StepCommands] : n \in 0..NumCmds}}

StepData == UNION {[D -> StepValues] : D \in SUBSET DataSteps}

NoSteps == [st \in {} |-> <<>>]

\* Steps.__init__: every step defined in data is imported, empty ones too;
\* a value that is not a list becomes a list of one element; the commands
\* are kept as a tuple.
StepsImport(data) == [st \in DOMAIN data |-> data[st].cmds]

\* list(commands) if len(commands) > 1 else commands[0]
DumpValue(commands) ==
    IF Len(commands) > 1 THEN List(commands) ELSE Bare(commands[1])

\* Steps.dump: the comprehension runs over every item of the dictionary;
\* commands[0] of an empty tuple raises IndexError.
DumpRaises(obj) == \E st \in DOMAIN obj : Len(obj[st]) = 0
StepsDump(obj) == [st \in DOMAIN obj |-> DumpValue(obj[st])]

\* Steps(data)
NewSteps ==
    /\ stpc = "data"
    /\ stObj' = StepsImport(stData)
    /\ stpc' = "imported"
    /\ UNCHANGED <<notSteps, stData, stDump, stAgain>>

\* steps.dump()
DumpSteps ==
    /\ stpc = "imported"
    /\ IF DumpRaises(stObj)
       THEN /\ stpc' = "raised"
            /\ UNCHANGED stDump
       ELSE /\ stDump' = StepsDump(stObj)
            /\ stpc' = "dumped"
    /\ UNCHANGED <<notSteps, stData, stObj, stAgain>>

\* Steps(steps.dump())
ReimportSteps ==
    /\ stpc = "dumped"
    /\ stAgain' = StepsImport(stDump)
    /\ stpc' = "reimported"
    /\ UNCHANGED <<notSteps, stData, stObj, stDump>>

StepsInit ==
    /\ stData \in StepData
    /\ stObj = NoSteps
    /\ stDump = NoSteps
    /\ stAgain = NoSteps
    /\ stpc = "data"

StepsParked ==
    /\ stData = NoSteps
    /\ stObj = NoSteps
    /\ stDump = NoSteps
    /\ stAgain = NoSteps
    /\ stpc = "data"

NextSteps == NewSteps \/ DumpSteps \/ ReimportSteps

\* C33: Steps dump/import round trip.  For every configuration whose
\* defined steps are empty lists, single commands or lists of commands,
\* dump() returns a dictionary (it does not raise) that holds no empty step
\* and maps a step of one command to the bare command, and importing the
\* dictionary again gives the same commands for every non-empty step.
C33_RoundTrip ==
    /\ stpc # "raised"
    /\ stpc \in {"dumped", "reimported"} =>
          \A st \in DOMAIN stDump :
              /\ stDump[st].cmds # <<>>
              /\ Len(stObj[st]) = 1 => stDump[st] = Bare(stObj[st][1])
    /\ stpc = "reimported" =>
          \A st \in DOMAIN stObj :
              stObj[st] # <<>> =>
                  st \in DOMAIN stAgain /\ stAgain[st] = stObj[st]

\* The round trip of a configuration without empty steps: dump() returns,
\* single commands are bare, and the import of the dump is the object.
RoundTripWithoutEmptySteps ==
    (\A st \in DOMAIN stData : stData[st].cmds # <<>>) =>
        /\ stpc # "raised"
        /\ stpc \in {"dumped", "reimported"} =>
              \A st \in DOMAIN stDump :
                  Len(stObj[st]) = 1 => stDump[st] = Bare(stObj[st][1])
        /\ stpc = "reimported" => stAgain = stObj

(***************************************************************************)
(* One record file pipeline.yml: PipelineConstructor.create makes the      *)
(* directory and the file and saves the record for the first time, later   *)
(* commits save it again (_save, LegacyPipeline.__save under the lock of   *)
(* __enter__), and other processes load it: Pipeline.__init__ / _load      *)
(* under a shared lock, LegacyPipeline.__init__ / __load without a lock.   *)
(* flock is advisory: it keeps nobody from reading who does not ask.       *)
(* The file is a sequence of chunks, each marked with the save that wrote  *)
(* it; a record is written by one flush, which overwrites the front of     *)
(* the file, and the rest is cut off by truncate().                        *)
(***************************************************************************)

\* Bounds: the number of saves of the writer, and of chunks of a record.
MaxSaves == 2
MaxRecLen == 2

Loaders == {"new", "legacy"}
RecProcs == {"writer"} \cup Loaders

\* The record that save v writes: fsize[v] chunks marked v.
RecordOf(v) == [i \in 1..fsize[v] |-> v]

\* The contents are a record that some save wrote in full.
Complete(c) ==
    c # <<>> /\ \E v \in 1..MaxSaves : fsize[v] # 0 /\ c = RecordOf(v)

\* create, after _assign_id: os.makedirs has made the directory.
RecMakeDirs ==
    /\ fpc["writer"] = "makedirs"
    /\ fstate' = "nofile"
    /\ fpc' = [fpc EXCEPT !["writer"] = "open"]
    /\ UNCHANGED <<notRec, fdata, fsize, fver, flk, fgot>>

\* create: self._fh = self._config_file('w') creates the file, empty.
RecOpenW ==
    /\ fpc["writer"] = "open"
    /\ fstate' = "file" /\ fdata' = <<>>
    /\ fpc' = [fpc EXCEPT !["writer"] = "save"]
    /\ UNCHANGED <<notRec, fsize, fver, flk, fgot>>

\* _save (and __enter__ of the legacy class before __save): the exclusive
\* lock, granted when nobody else holds a lock; the record to be written
\* is the object's state.
RecSaveLock ==
    /\ fpc["writer"] = "save"
    /\ fver < MaxSaves
    /\ \A p \in Loaders : flk[p] = "none"
    /\ flk' = [flk EXCEPT !["writer"] = "EX"]
    /\ fver' = fver + 1
    /\ \E n \in 1..MaxRecLen : fsize' = [fsize EXCEPT ![fver + 1] = n]
    /\ fpc' = [fpc EXCEPT !["writer"] = "save_dump"]
    /\ UNCHANGED <<notRec, fstate, fdata, fgot>>

\* seek(0); yaml.dump(...): the record overwrites the front of the file
\* when the buffer is flushed.
RecSaveDump ==
    /\ fpc["writer"] = "save_dump"
    /\ fdata' = [i \in 1..(IF Len(fdata) > fsize[fver] THEN Len(fdata)
                                                      ELSE fsize[fver]) |->
                   IF i <= fsize[fver] THEN fver ELSE fdata[i]]
    /\ fpc' = [fpc EXCEPT !["writer"] = "save_truncate"]
    /\ UNCHANGED <<notRec, fstate, fsize, fver, flk, fgot>>

\* truncate(): what is left of a longer record is cut off.
RecSaveTruncate ==
    /\ fpc["writer"] = "save_truncate"
    /\ fdata' = SubSeq(fdata, 1, fsize[fver])
    /\ fpc' = [fpc EXCEPT !["writer"] = "save_unlock"]
    /\ UNCHANGED <<notRec, fstate, fsize, fver, flk, fgot>>

\* portalocker.unlock; the writer may commit again later.
RecSaveUnlock ==
    /\ fpc["writer"] = "save_unlock"
    /\ flk' = [flk EXCEPT !["writer"] = "none"]
    /\ fpc' = [fpc EXCEPT !["writer"] = "save"]
    /\ UNCHANGED <<notRec, fstate, fdata, fsize, fver, fgot>>

\* Pipeline.__init__ / LegacyPipeline.__init__: open(..., 'r+'), which
\* raises FileNotFoundError unless the file is there.
RecOpen(p) ==
    /\ fpc[p] \in {"idle", "loaded", "raised"}
    /\ fpc' = [fpc EXCEPT ![p] = IF fstate # "file" THEN "raised"
                                 ELSE IF p = "new" THEN "load_lock"
                                 ELSE "load_read"]
    /\ UNCHANGED <<notRec, fstate, fdata, fsize, fver, flk, fgot>>

\* Pipeline._load: portalocker.lock(self._fh, LOCK_SH).
RecLoadLock ==
    /\ fpc["new"] = "load_lock"
    /\ flk["writer"] # "EX"
    /\ flk' = [flk EXCEPT !["new"] = "SH"]
    /\ fpc' = [fpc EXCEPT !["new"] = "load_read"]
    /\ UNCHANGED <<notRec, fstate, fdata, fsize, fver, fgot>>

\* seek(0); yaml.load(fh) and the import of what it gave.  An empty file
\* gives None, whose import raises (None has no get; ReadonlyDict(None));
\* contents that are no record may fail to parse or may parse.  The legacy
\* class reads without having asked for a lock.  An exception leaves
\* __init__, so the object and its file handle are gone.
RecLoadRead(p) ==
    /\ fpc[p] = "load_read"
    /\ \E parsed \in BOOLEAN :
        /\ Complete(fdata) => parsed
        /\ fdata = <<>> => ~parsed
        /\ IF parsed
           THEN /\ fgot' = [fgot EXCEPT ![p] = fdata]
                /\ fpc' = [fpc EXCEPT ![p] = IF p = "new" THEN "load_unlock"
                                             ELSE "loaded"]
                /\ UNCHANGED flk
           ELSE /\ fpc' = [fpc EXCEPT ![p] = "raised"]
                /\ flk' = [flk EXCEPT ![p] = "none"]
                /\ UNCHANGED fgot
    /\ UNCHANGED <<notRec, fstate, fdata, fsize, fver>>

\* Pipeline._load: portalocker.unlock(self._fh).
RecLoadUnlock ==
    /\ fpc["new"] = "load_unlock"
    /\ flk' = [flk EXCEPT !["new"] = "none"]
    /\ fpc' = [fpc EXCEPT !["new"] = "loaded"]
    /\ UNCHANGED <<notRec, fstate, fdata, fsize, fver, fgot>>

RecInit ==
    /\ fstate = "nodir"
    /\ fdata = <<>>
    /\ fsize = [v \in 1..MaxSaves |-> 0]
    /\ fver = 0
    /\ flk = [p \in RecProcs |-> "none"]
    /\ fpc = [p \in RecProcs |-> IF p = "writer" THEN "makedirs" ELSE "idle"]
    /\ fgot = [p \in Loaders |-> <<>>]

RecParked == RecInit

NextRecord ==
    \/ RecMakeDirs \/ RecOpenW
    \/ RecSaveLock \/ RecSaveDump \/ RecSaveTruncate \/ RecSaveUnlock
    \/ \E p \in Loaders : RecOpen(p) \/ RecLoadRead(p)
    \/ RecLoadLock \/ RecLoadUnlock

\* C35: loads never observe an incomplete record.  Whatever a load that
\* completed returned, in either class and at any time, is a record that
\* some save wrote in full: not an empty file, and not the front of one
\* record followed by what is left of another.
C35_LoadsComplete ==
    \A p \in Loaders : fpc[p] = "loaded" => Complete(fgot[p])

\* Loads under the shared lock: what a completed load of the Pipeline
\* class returned is a record that some save wrote in full.
LockedLoadsComplete ==
    fpc["new"] \in {"load_unlock", "loaded"} => Complete(fgot["new"])

(***************************************************************************)
(* The specifications: one subsystem runs, the others stay as they are.    *)
(***************************************************************************)
InitLock == LockInit /\ AllocInit /\ SchedParked /\ RunParked /\ LegacyParked
    /\ StatusParked /\ ConfParked /\ StepsParked /\ RecParked
SpecLock == InitLock /\ [][NextLock]_vars
SpecLockFair == InitLock /\ [][NextLock]_vars /\ LockFairness

InitAlloc == AllocInit /\ LockInit /\ SchedParked /\ RunParked /\ LegacyParked
    /\ StatusParked /\ ConfParked /\ StepsParked /\ RecParked
SpecAlloc == InitAlloc /\ [][NextAlloc]_vars

InitSched == SchedInit /\ LockInit /\ AllocInit /\ RunParked /\ LegacyParked
    /\ StatusParked /\ ConfParked /\ StepsParked /\ RecParked
SpecSched == InitSched /\ [][NextSched]_vars

InitRun == RunInit /\ LockInit /\ AllocInit /\ SchedParked /\ LegacyParked
    /\ StatusParked /\ ConfParked /\ StepsParked /\ RecParked
SpecRun == InitRun /\ [][NextRun]_vars

InitLegacy == LegacyInit /\ LockInit /\ AllocInit /\ SchedParked /\ RunParked
    /\ StatusParked /\ ConfParked /\ StepsParked /\ RecParked
SpecLegacy == InitLegacy /\ [][NextLegacy]_vars

InitStatus == StatusInit /\ LockInit /\ AllocInit /\ SchedParked /\ RunParked
    /\ LegacyParked /\ ConfParked /\ StepsParked /\ RecParked
SpecStatus == InitStatus /\ [][NextStatus]_vars

InitConf == ConfInit /\ LockInit /\ AllocInit /\ SchedParked /\ RunParked
    /\ LegacyParked /\ StatusParked /\ StepsParked /\ RecParked
SpecConf == InitConf /\ [][NextConf]_vars

InitSteps == StepsInit /\ LockInit /\ AllocInit /\ SchedParked /\ RunParked
    /\ LegacyParked /\ StatusParked /\ ConfParked /\ RecParked
SpecSteps == InitSteps /\ [][NextSteps]_vars

InitRecord == RecInit /\ LockInit /\ AllocInit /\ SchedParked /\ RunParked
    /\ LegacyParked /\ StatusParked /\ ConfParked /\ StepsParked
SpecRecord == InitRecord /\ [][NextRecord]_vars

====
